---- MODULE Spec2Model ----
(***************************************************************************)
(* The output layer of simple-ddl-parser: Output.format                    *)
(* (output/core.py) folds the parser's statement records into table        *)
(* entities (TableData.init, output/table_data.py; BaseData,               *)
(* output/base_data.py), applies ALTER and CREATE INDEX records to the     *)
(* registered entities and returns the flat result.                        *)
(*                                                                         *)
(* Python values are modelled as follows.  A dict is a function from key   *)
(* strings to values (key presence is DOMAIN), a list is a sequence, None  *)
(* is the empty tuple.  A dataclass attribute that is None or a list       *)
(* (primary_key) is None or the one-element tuple holding the list.        *)
(* A TableData object is an element of the sequence table_data, and a      *)
(* reference to it is its index: to_dict copies references, so an emitted  *)
(* map names the object whose columns, alter and index values it shares.   *)
(***************************************************************************)
EXTENDS Integers, Sequences, FiniteSets, TLC

VARIABLES
    output_mode,    \* Output.output_mode, fixed for the run
    group_by_type,  \* Output.group_by_type, fixed for the run
    parser_output,  \* the records of Output.parser_output consumed so far
    tables_dict,    \* Output.tables_dict: table id -> TableData object
    table_data,     \* the TableData objects created so far, in creation order
    final_result,   \* Output.final_result
    status,         \* "running", "returned" (format returned) or "raised"
    error           \* the exception that left format, None while there is none

vars == <<output_mode, group_by_type, parser_output, tables_dict, table_data, final_result, status, error>>

\* ------------------------------------------------------------------ bounds

\* Longest statement stream explored by Spec.
MaxStatements == 3
\* Longest column list of a CREATE TABLE record explored by SpecBuild.
MaxColumns == 2

\* ------------------------------------------------------- Python values

None == <<>>
Some(v) == <<v>>

\* dict operations: key in d, d.get(k, default), d[k] = v, del d[k], {}
Has(d, k) == k \in DOMAIN d
Get(d, k, default) == IF k \in DOMAIN d THEN d[k] ELSE default
SetKey(d, k, v) == [x \in DOMAIN d \cup {k} |-> IF x = k THEN v ELSE d[x]]
DelKey(d, k) == [x \in DOMAIN d \ {k} |-> d[x]]
EmptyDict == [x \in {} |-> x]

\* an empty list or an empty dict
Falsy(v) == DOMAIN v = {}

\* x in list
InList(x, list) == \E i \in 1..Len(list) : list[i] = x

Range(list) == {list[i] : i \in 1..Len(list)}

\* an exception raised, or a value returned
Raised(type, detail) == [exc |-> Some([type |-> type, detail |-> detail]), value |-> None]
Returned(v) == [exc |-> None, value |-> v]

\* ------------------------------------------------- utils (not under src/)

\* normalize_name: quoting characters removed, lower case
normalize_name(name) ==
    CASE name = "A" -> "a"
      [] name = "\"a\"" -> "a"
      [] name = "B" -> "b"
      [] name = "T" -> "t"
      [] name = "[t]" -> "t"
      [] name = "S" -> "s"
      [] OTHER -> name

\* get_table_id: (normalized table name, normalized schema name)
get_table_id(schema_name, table_name) ==
    <<normalize_name(table_name),
      IF schema_name # "" THEN normalize_name(schema_name) ELSE schema_name>>

\* ------------------------------------------------------------ BaseData

\* set_column_unique_param: the columns named by the key's list get unique
set_column_unique_param(self, key) ==
    LET check_in ==
            IF key = "constraints"
            THEN LET unique == Get(self.constraints, "unique", EmptyDict)
                 IN  IF DOMAIN unique # {} THEN unique.columns ELSE <<>>
            ELSE self[key]
    IN  [self EXCEPT !.columns =
            [i \in 1..Len(self.columns) |->
                IF InList(self.columns[i].name, check_in)
                THEN SetKey(self.columns[i], "unique", TRUE)
                ELSE self.columns[i]]]

\* set_unique_columns reading unique_statement only
set_unique_columns_statement_only(self) ==
    IF self.unique_statement # <<>>
    THEN set_column_unique_param(self, "unique_statement") ELSE self

\* set_unique_columns: unique_statement first, then constraints
set_unique_columns(self) ==
    LET s1 == IF self.unique_statement # <<>>
              THEN set_column_unique_param(self, "unique_statement") ELSE self
    IN  IF DOMAIN s1.constraints # {}
        THEN set_column_unique_param(s1, "constraints") ELSE s1

\* remove_pk_from_columns: del column["primary_key"] on every column
remove_pk_from_columns(self) ==
    [self EXCEPT !.columns =
        [i \in 1..Len(self.columns) |-> DelKey(self.columns[i], "primary_key")]]

\* the scan stopping at the first flagged column
FlaggedNamesFirst(columns) ==
    LET flagged == SelectSeq(columns, LAMBDA c : c.primary_key)
    IN  [i \in 1..(IF Len(flagged) > 0 THEN 1 ELSE 0) |-> flagged[i].name]

\* the names of the flagged columns, in column order
FlaggedNames(columns) ==
    LET flagged == SelectSeq(columns, LAMBDA c : c.primary_key)
    IN  [i \in 1..Len(flagged) |-> flagged[i].name]

RECURSIVE ExtendAll(_, _)
\* for key_constraints in list: pk.extend(key_constraints["columns"])
ExtendAll(pk, list) ==
    IF list = <<>> THEN pk
    ELSE ExtendAll(pk \o Head(list).columns, Tail(list))

\* get_pk_from_columns_and_constraints with the constraints' names first
get_pk_constraints_first(self) ==
    LET pk == FlaggedNames(self.columns)
        all == IF Get(self.constraints, "primary_keys", <<>>) # <<>>
               THEN ExtendAll(<<>>, self.constraints.primary_keys) \o pk ELSE pk
    IN  [remove_pk_from_columns(self) EXCEPT !.primary_key = Some(all)]

\* get_pk_from_columns_and_constraints
get_pk_from_columns_and_constraints(self) ==
    LET pk == FlaggedNames(self.columns)
        all == IF Get(self.constraints, "primary_keys", <<>>) # <<>>
               THEN ExtendAll(pk, self.constraints.primary_keys) ELSE pk
    IN  [remove_pk_from_columns(self) EXCEPT !.primary_key = Some(all)]

\* add_unique_columns: the columns named by self.unique get unique
add_unique_columns(self) ==
    [self EXCEPT !.columns =
        [i \in 1..Len(self.columns) |->
            IF InList(self.columns[i].name, self.unique)
            THEN SetKey(self.columns[i], "unique", TRUE)
            ELSE self.columns[i]]]

\* the last loop of populate_keys: primary-key columns are not nullable
SetNotNullable(self) ==
    [self EXCEPT !.columns =
        [i \in 1..Len(self.columns) |->
            IF InList(self.columns[i].name, self.primary_key[1])
            THEN SetKey(self.columns[i], "nullable", FALSE)
            ELSE self.columns[i]]]

\* populate_keys forcing nullable only where the list was inferred
populate_keys_inferred_only(self) ==
    LET inferred == self.primary_key = None \/ self.primary_key[1] = <<>>
        s1 == IF inferred
              THEN get_pk_from_columns_and_constraints(self)
              ELSE remove_pk_from_columns(self)
        s2 == IF s1.unique # <<>> THEN add_unique_columns(s1) ELSE s1
    IN  IF inferred THEN SetNotNullable(s2) ELSE s2

\* populate_keys
populate_keys(self) ==
    LET s1 == IF self.primary_key = None \/ self.primary_key[1] = <<>>
              THEN get_pk_from_columns_and_constraints(self)
              ELSE remove_pk_from_columns(self)
        s2 == IF s1.unique # <<>> THEN add_unique_columns(s1) ELSE s1
    IN  SetNotNullable(s2)

\* normalize_ref_columns_in_final_output attaching the descriptor as it is,
\* with its name
normalize_ref_columns_named(self) ==
    [self EXCEPT !.columns =
        [i \in 1..Len(self.columns) |->
            LET hits == {j \in 1..Len(self.ref_columns) :
                            self.ref_columns[j].name = self.columns[i].name}
            IN  IF hits = {} THEN self.columns[i]
                ELSE SetKey(self.columns[i], "references",
                            self.ref_columns[CHOOSE j \in hits : \A h \in hits : h <= j])]]

\* normalize_ref_columns_in_final_output, for columns of different names:
\* each descriptor of ref_columns, in order, loses its name and becomes the
\* references of the column of that name, so a column keeps the last
\* descriptor that names it
normalize_ref_columns_in_final_output(self) ==
    [self EXCEPT !.columns =
        [i \in 1..Len(self.columns) |->
            LET hits == {j \in 1..Len(self.ref_columns) :
                            self.ref_columns[j].name = self.columns[i].name}
            IN  IF hits = {} THEN self.columns[i]
                ELSE SetKey(self.columns[i], "references",
                            DelKey(self.ref_columns[CHOOSE j \in hits : \A h \in hits : h <= j],
                                   "name"))]]

\* __post_init__ (post_process does nothing in BaseData)
post_init(self) ==
    normalize_ref_columns_in_final_output(populate_keys(set_unique_columns(self)))

\* ----------------------------------------------------------- TableData

\* the dataclass fields of BaseData
BaseDataFields ==
    {"table_name", "init_data", "output_mode", "schema", "primary_key", "columns",
     "alter", "checks", "index", "partitioned_by", "constraints", "tablespace",
     "if_not_exists", "partition_by", "table_properties", "replace", "comment",
     "like", "unique", "unique_statement", "ref_columns", "references"}

\* the fields CommonDialectsFieldsMixin adds to the class of a dialect, with
\* their defaults and the dialects output_modes allows each in
CommonDialectsFields == {"temp", "tblproperties"}
CommonDialectsDefaults == [temp |-> FALSE, tblproperties |-> EmptyDict]
output_modes == [temp |-> {"hql", "spark_sql"}, tblproperties |-> {"hql", "spark_sql"}]

\* the field the class of the bigquery dialect adds, with its default
BigQueryFields == {"dataset"}
BigQueryDefaults == [dataset |-> None]

\* get_dialect_class: the dataclass fields of the class built for the mode
get_dialect_class(kwargs) ==
    IF Has(kwargs, "output_mode") /\ kwargs.output_mode \notin {"", "sql"}
    THEN BaseDataFields \cup CommonDialectsFields
            \cup (IF kwargs.output_mode = "bigquery" THEN BigQueryFields ELSE {})
    ELSE BaseDataFields

\* __d_name__ of that class
d_name(kwargs) ==
    IF Has(kwargs, "output_mode") /\ kwargs.output_mode \notin {"", "sql"}
    THEN kwargs.output_mode ELSE "sql"

\* the first lines of pre_load_mods: for bigquery a schema is also the dataset
with_dataset(kwargs) ==
    IF d_name(kwargs) = "bigquery" /\ Get(kwargs, "schema", "") # ""
    THEN SetKey(kwargs, "dataset", kwargs.schema) ELSE kwargs

\* pre_load_mods with init_data left empty: no key counts as provided
pre_load_mods_unprovided(main_cls, kwargs) ==
    LET given == with_dataset(kwargs)
        table_main_args == [k \in DOMAIN given \cap main_cls |-> given[k]]
        table_properties == [k \in DOMAIN given \ main_cls |-> given[k]]
    IN  SetKey(SetKey(table_main_args, "table_properties", table_properties),
               "init_data", {})

\* pre_load_mods: the recognized keys, the rest folded into table_properties,
\* and init_data holding every key of the record (only its keys are ever read)
pre_load_mods(main_cls, kwargs) ==
    LET given == with_dataset(kwargs)
        table_main_args == [k \in DOMAIN given \cap main_cls |-> given[k]]
        table_properties == [k \in DOMAIN given \ main_cls |-> given[k]]
    IN  SetKey(SetKey(table_main_args, "table_properties", table_properties),
               "init_data", DOMAIN given)

\* the dataclass constructor: the given fields, the defaults for the others
BaseData(kwargs) ==
    [table_name |-> Get(kwargs, "table_name", None),
     init_data |-> Get(kwargs, "init_data", None),
     output_mode |-> Get(kwargs, "output_mode", "sql"),
     schema |-> Get(kwargs, "schema", None),
     primary_key |-> IF Has(kwargs, "primary_key") THEN Some(kwargs.primary_key) ELSE None,
     columns |-> Get(kwargs, "columns", <<>>),
     alter |-> Get(kwargs, "alter", EmptyDict),
     checks |-> Get(kwargs, "checks", <<>>),
     index |-> Get(kwargs, "index", <<>>),
     partitioned_by |-> Get(kwargs, "partitioned_by", <<>>),
     constraints |-> Get(kwargs, "constraints", EmptyDict),
     tablespace |-> Get(kwargs, "tablespace", None),
     if_not_exists |-> Get(kwargs, "if_not_exists", FALSE),
     partition_by |-> Get(kwargs, "partition_by", EmptyDict),
     table_properties |-> Get(kwargs, "table_properties", EmptyDict),
     replace |-> Get(kwargs, "replace", None),
     comment |-> Get(kwargs, "comment", None),
     like |-> Get(kwargs, "like", EmptyDict),
     unique |-> Get(kwargs, "unique", <<>>),
     unique_statement |-> Get(kwargs, "unique_statement", <<>>),
     ref_columns |-> Get(kwargs, "ref_columns", <<>>),
     references |-> Get(kwargs, "references", <<>>)]

\* the dataclass constructor of the class with the fields main_cls
DialectData(main_cls, kwargs) ==
    LET base == BaseData(kwargs)
    IN  [k \in main_cls |->
            IF k \in BaseDataFields THEN base[k]
            ELSE IF k \in BigQueryFields THEN Get(kwargs, k, BigQueryDefaults[k])
            ELSE Get(kwargs, k, CommonDialectsDefaults[k])]

\* TableData.init
TableData_init(kwargs) ==
    LET main_cls == get_dialect_class(kwargs)
    IN  post_init(DialectData(main_cls, pre_load_mods(main_cls, kwargs)))

\* ------------------------------------------------- common.py, on dictionaries

\* init_table_data; primary_key is None until a list is assigned
init_table_data ==
    [columns |-> <<>>, primary_key |-> None, alter |-> EmptyDict, checks |-> <<>>,
     index |-> <<>>, partitioned_by |-> <<>>, tablespace |-> None]

\* common.set_column_unique_param
common_set_column_unique_param(table_data_, key) ==
    LET check_in ==
            IF key = "constraints"
            THEN LET unique == Get(table_data_[key], "unique", EmptyDict)
                 IN  IF DOMAIN unique # {} THEN unique.columns ELSE <<>>
            ELSE table_data_[key]
    IN  SetKey(table_data_, "columns",
            [i \in 1..Len(table_data_.columns) |->
                IF InList(table_data_.columns[i].name, check_in)
                THEN SetKey(table_data_.columns[i], "unique", TRUE)
                ELSE table_data_.columns[i]])

\* common.set_unique_columns; the unique_statement key is deleted at the end
common_set_unique_columns(table_data_) ==
    LET s1 == IF ~Falsy(Get(table_data_, "unique_statement", <<>>))
              THEN common_set_column_unique_param(table_data_, "unique_statement")
              ELSE table_data_
        s2 == IF ~Falsy(Get(s1, "constraints", EmptyDict))
              THEN common_set_column_unique_param(s1, "constraints") ELSE s1
    IN  DelKey(s2, "unique_statement")

\* common.add_unique_columns; the unique key is deleted at the end
common_add_unique_columns(table_data_) ==
    DelKey(SetKey(table_data_, "columns",
                [i \in 1..Len(table_data_.columns) |->
                    IF InList(table_data_.columns[i].name, table_data_.unique)
                    THEN SetKey(table_data_.columns[i], "unique", TRUE)
                    ELSE table_data_.columns[i]]),
           "unique")

\* common.remove_pk_from_columns
common_remove_pk_from_columns(table_data_) ==
    SetKey(table_data_, "columns",
        [i \in 1..Len(table_data_.columns) |->
            DelKey(table_data_.columns[i], "primary_key")])

\* common.check_pk_in_columns_and_constraints
check_pk_in_columns_and_constraints(table_data_) ==
    LET pk == FlaggedNames(table_data_.columns)
        constraints == Get(table_data_, "constraints", EmptyDict)
        all == IF ~Falsy(constraints) /\ Get(constraints, "primary_keys", <<>>) # <<>>
               THEN ExtendAll(pk, constraints.primary_keys) ELSE pk
    IN  SetKey(common_remove_pk_from_columns(table_data_), "primary_key", Some(all))

\* what common.Output.process_is_it_table_item returns for table_data_
process_is_it_table_item(table_data_) ==
    LET s1 == IF table_data_.primary_key = None \/ table_data_.primary_key[1] = <<>>
              THEN check_pk_in_columns_and_constraints(table_data_)
              ELSE common_remove_pk_from_columns(table_data_)
        s2 == IF ~Falsy(Get(s1, "unique", <<>>)) THEN common_add_unique_columns(s1) ELSE s1
    IN  SetKey(s2, "columns",
            [i \in 1..Len(s2.columns) |->
                IF InList(s2.columns[i].name, s2.primary_key[1])
                THEN SetKey(s2.columns[i], "nullable", FALSE)
                ELSE s2.columns[i]])

\* what common.Output.process_entities hands to process_is_it_table_item:
\* init_table_data() updated with the record, after set_unique_columns
process_entities_table_data(table) ==
    common_set_unique_columns(
        [k \in DOMAIN init_table_data \cup DOMAIN table |->
            IF k \in DOMAIN table
            THEN IF k = "primary_key" THEN Some(table[k]) ELSE table[k]
            ELSE init_table_data[k]])

\* dialects.dialects_clean_up on a record that is not a table: the record is
\* emitted unchanged
dialects_clean_up(mode, data) == data

\* common.normalize_ref_columns_in_final_output: references is deleted; each
\* descriptor of ref_columns loses its name and becomes the references of the
\* columns of that name; ref_columns is deleted
common_normalize_ref_columns_in_final_output(table) ==
    LET unreferenced == IF Has(table, "references")
                        THEN DelKey(table, "references") ELSE table
        Referenced(column) ==
            LET hits == {j \in 1..Len(unreferenced.ref_columns) :
                            unreferenced.ref_columns[j].name = column.name}
            IN  IF hits = {} THEN column
                ELSE SetKey(column, "references",
                            DelKey(unreferenced.ref_columns[CHOOSE j \in hits :
                                        \A h \in hits : h <= j], "name"))
    IN  IF Has(unreferenced, "ref_columns")
        THEN DelKey(SetKey(unreferenced, "columns",
                           [i \in 1..Len(unreferenced.columns) |->
                                Referenced(unreferenced.columns[i])]), "ref_columns")
        ELSE unreferenced

\* dialects.populate_dialects_table_data: no key is added in the modes used
populate_dialects_table_data(mode, table) == table

\* common.Output.process_entities on a CREATE TABLE record
process_entities_table(mode, table) ==
    LET updated == populate_dialects_table_data(mode, init_table_data)
        given == [k \in DOMAIN updated \cup DOMAIN table |->
                    IF k \in DOMAIN table
                    THEN IF k = "primary_key" THEN Some(table[k]) ELSE table[k]
                    ELSE updated[k]]
    IN  dialects_clean_up(mode,
            common_normalize_ref_columns_in_final_output(
                process_is_it_table_item(common_set_unique_columns(given))))

\* common.Output.process_entities on a record without table_name
process_entities_other(mode, table) ==
    dialects_clean_up(mode, common_normalize_ref_columns_in_final_output(table))

\* the field metadata of BaseData
exclude_always_keys ==
    {"init_data", "output_mode", "unique", "unique_statement", "ref_columns", "references"}
exclude_if_not_provided ==
    {"constraints", "if_not_exists", "partition_by", "replace", "comment", "like"}
exclude_if_empty == {"table_properties"}
\* the field metadata of CommonDialectsFieldsMixin
dialect_exclude_if_not_provided == {"tblproperties"}
exclude_by_dialect_filter(mode) ==
    {key \in CommonDialectsFields : mode \notin output_modes[key]}

\* filter_out_output keeping the always-excluded fields
filter_out_output_leaking(self, field) ==
    IF (field \in exclude_if_not_provided \cup dialect_exclude_if_not_provided)
            /\ field \notin self.init_data THEN FALSE
    ELSE IF field \in exclude_if_empty /\ Falsy(self[field]) THEN FALSE
    ELSE IF field \in exclude_by_dialect_filter(self.output_mode) THEN FALSE
    ELSE TRUE

\* filter_out_output: whether field goes to the output
filter_out_output(self, field) ==
    IF field \in exclude_always_keys THEN FALSE
    ELSE IF (field \in exclude_if_not_provided \cup dialect_exclude_if_not_provided)
            /\ field \notin self.init_data THEN FALSE
    ELSE IF field \in exclude_if_empty /\ Falsy(self[field]) THEN FALSE
    ELSE IF field \in exclude_by_dialect_filter(self.output_mode) THEN FALSE
    ELSE TRUE

\* to_dict returning a deep copy of the values: a snapshot
to_dict_snapshot(objects, self_ref) ==
    [table |-> self_ref,
     keys |-> {key \in DOMAIN objects[self_ref] : filter_out_output(objects[self_ref], key)},
     copy |-> Some(objects[self_ref])]

\* to_dict: the fields filter_out_output keeps, each with the object's own
\* value (output[key] = value): the map shares the values with the object
\* self_ref refers to, and holds no copy of them
to_dict(objects, self_ref) ==
    [table |-> self_ref,
     keys |-> {key \in DOMAIN objects[self_ref] : filter_out_output(objects[self_ref], key)},
     copy |-> None]

\* the dict an emitted table map stands for, given the objects
Emitted(item, objects) ==
    LET values == IF item.copy = None THEN objects[item.table] ELSE item.copy[1]
    IN  [key \in item.keys |-> values[key]]

\* ------------------------------------------------ ALTER (output/core.py)

\* the first column whose normalized name is the normalized name, 0 when none
FirstMatch(columns, name) ==
    LET hits == {i \in 1..Len(columns) :
                    normalize_name(name) = normalize_name(columns[i].name)}
    IN  IF hits = {} THEN 0 ELSE CHOOSE i \in hits : \A j \in hits : i <= j

\* list[index] = value
SetAt(list, index, value) ==
    [i \in 1..Len(list) |-> IF i = index THEN value ELSE list[i]]

RemoveAt(list, index) ==
    [i \in 1..(Len(list) - 1) |-> IF i < index THEN list[i] ELSE list[i + 1]]

\* if not alter.get(key): alter[key] = []
EnsureList(alter, key) ==
    IF Falsy(Get(alter, key, <<>>)) THEN SetKey(alter, key, <<>>) ELSE alter

RECURSIVE ModifyEach(_, _)
\* the loop of alter_modify_columns over statement["columns_to_modify"]
ModifyEach(target_table, columns_to_modify) ==
    IF columns_to_modify = <<>> THEN target_table
    ELSE LET modified_column == Head(columns_to_modify)
             index == FirstMatch(target_table.columns, modified_column.name)
             next ==
                IF index = 0 THEN target_table
                ELSE [target_table EXCEPT
                        !.alter = SetKey(@, "modified_columns", target_table.columns[index]),
                        !.columns = SetAt(@, index, modified_column)]
         IN  ModifyEach(next, Tail(columns_to_modify))

\* alter_modify_columns leaving a column already in the slot where it is
alter_modify_columns_keeping(target_table, statement) ==
    LET done == ModifyEach([target_table EXCEPT !.alter = EnsureList(@, "modified_columns")],
                           statement.columns_to_modify)
    IN  IF Falsy(Get(target_table.alter, "modified_columns", <<>>)) THEN done
        ELSE [done EXCEPT !.alter = SetKey(@, "modified_columns",
                                           target_table.alter.modified_columns)]

\* alter_modify_columns
alter_modify_columns(target_table, statement) ==
    ModifyEach([target_table EXCEPT !.alter = EnsureList(@, "modified_columns")],
               statement.columns_to_modify)

RECURSIVE DropEach(_, _)
\* the loop of alter_drop_columns over statement["columns_to_drop"]
DropEach(target_table, columns_to_drop) ==
    IF columns_to_drop = <<>> THEN target_table
    ELSE LET index == FirstMatch(target_table.columns, Head(columns_to_drop))
             next ==
                IF index = 0 THEN target_table
                ELSE [target_table EXCEPT
                        !.alter = SetKey(@, "dropped_columns", target_table.columns[index]),
                        !.columns = RemoveAt(@, index)]
         IN  DropEach(next, Tail(columns_to_drop))

\* alter_drop_columns recording the name of the removed column
alter_drop_columns_naming(target_table, statement) ==
    LET done == DropEach([target_table EXCEPT !.alter = EnsureList(@, "dropped_columns")],
                         statement.columns_to_drop)
    IN  IF Falsy(done.alter.dropped_columns) THEN done
        ELSE [done EXCEPT !.alter = SetKey(@, "dropped_columns",
                                           [name |-> @.dropped_columns.name])]

\* alter_drop_columns
alter_drop_columns(target_table, statement) ==
    DropEach([target_table EXCEPT !.alter = EnsureList(@, "dropped_columns")],
             statement.columns_to_drop)

RECURSIVE RenameEach(_, _)
\* the loop of alter_rename_columns over statement["columns_to_rename"]
RenameEach(columns, columns_to_rename) ==
    IF columns_to_rename = <<>> THEN columns
    ELSE LET renamed_column == Head(columns_to_rename)
             index == FirstMatch(columns, renamed_column.from)
             next == IF index = 0 THEN columns
                     ELSE SetAt(columns, index,
                                SetKey(columns[index], "name", renamed_column.to))
         IN  RenameEach(next, Tail(columns_to_rename))

\* alter_rename_columns recording only the pairs whose from is a live column
alter_rename_columns_matched(target_table, statement) ==
    LET renamed == [target_table EXCEPT
                        !.columns = RenameEach(@, statement.columns_to_rename)]
        alter == EnsureList(renamed.alter, "renamed_columns")
        matched == SelectSeq(statement.columns_to_rename,
                             LAMBDA pair : FirstMatch(target_table.columns, pair.from) # 0)
    IN  [renamed EXCEPT !.alter =
            SetKey(alter, "renamed_columns", alter.renamed_columns \o matched)]

\* alter_rename_columns
alter_rename_columns(target_table, statement) ==
    LET renamed == [target_table EXCEPT
                        !.columns = RenameEach(@, statement.columns_to_rename)]
        alter == EnsureList(renamed.alter, "renamed_columns")
    IN  [renamed EXCEPT !.alter =
            SetKey(alter, "renamed_columns",
                   alter.renamed_columns \o statement.columns_to_rename)]

\* set_alter_to_table_data also resolving an added primary key: the named
\* columns join primary_key and lose nullable
set_alter_to_table_data_keying(key, statement, target_table) ==
    LET bucket == key \o "s"
        alter == EnsureList(target_table.alter, bucket)
        recorded == [target_table EXCEPT
                        !.alter = SetKey(alter, bucket, Append(alter[bucket], statement[key]))]
    IN  IF key # "primary_key" THEN recorded
        ELSE [recorded EXCEPT
                !.primary_key = Some(@[1] \o statement.primary_key.columns),
                !.columns = [i \in 1..Len(@) |->
                                IF InList(@[i].name, statement.primary_key.columns)
                                THEN SetKey(@[i], "nullable", FALSE) ELSE @[i]]]

\* set_alter_to_table_data: the clause, with the statement's using, appended
\* to alter[key + "s"]
set_alter_to_table_data(key, statement, target_table) ==
    LET bucket == key \o "s"
        alter == EnsureList(target_table.alter, bucket)
        clause == IF Has(statement, "using")
                  THEN SetKey(statement[key], "using", statement.using)
                  ELSE statement[key]
    IN  [target_table EXCEPT !.alter = SetKey(alter, bucket, Append(alter[bucket], clause))]

\* set_unique_columns_from_alter assigning the membership to every column
set_unique_columns_from_alter_assigning(statement, target_table) ==
    [target_table EXCEPT !.columns =
        [i \in 1..Len(target_table.columns) |->
            SetKey(target_table.columns[i], "unique",
                   InList(target_table.columns[i].name, statement.unique.columns))]]

\* set_unique_columns_from_alter
set_unique_columns_from_alter(statement, target_table) ==
    [target_table EXCEPT !.columns =
        [i \in 1..Len(target_table.columns) |->
            IF InList(target_table.columns[i].name, statement.unique.columns)
            THEN SetKey(target_table.columns[i], "unique", TRUE)
            ELSE target_table.columns[i]]]

\* set_default_columns_from_alter
set_default_columns_from_alter(statement, target_table) ==
    [target_table EXCEPT !.columns =
        [i \in 1..Len(target_table.columns) |->
            IF InList(target_table.columns[i].name, statement.default.columns)
            THEN SetKey(target_table.columns[i], "default", statement.default.value)
            ELSE target_table.columns[i]]]

RECURSIVE Join(_)
\* " ".join(tokens)
Join(tokens) ==
    IF tokens = <<>> THEN ""
    ELSE IF Len(tokens) = 1 THEN tokens[1]
    ELSE tokens[1] \o " " \o Join(Tail(tokens))

\* the "check" branch of add_alter_to_table
alter_add_check(target_table, statement) ==
    LET alter == EnsureList(target_table.alter, "checks")
        check == SetKey(statement.check, "statement", Join(statement.check.statement))
    IN  [target_table EXCEPT !.alter = SetKey(alter, "checks", Append(alter.checks, check))]

\* the dispatch of add_alter_to_table on the record's keys: the target table
\* after the operation, or the exception.  BaseData has no method
\* prepare_alter_columns (base_data.py defines it at module level), so the
\* "columns" branch raises AttributeError.
alter_dispatch(target_table, statement) ==
    IF Has(statement, "columns")
    THEN Raised("AttributeError", <<"prepare_alter_columns">>)
    ELSE IF Has(statement, "columns_to_rename")
    THEN Returned(alter_rename_columns(target_table, statement))
    ELSE IF Has(statement, "columns_to_drop")
    THEN Returned(alter_drop_columns(target_table, statement))
    ELSE IF Has(statement, "columns_to_modify")
    THEN Returned(alter_modify_columns(target_table, statement))
    ELSE IF Has(statement, "check")
    THEN Returned(alter_add_check(target_table, statement))
    ELSE IF Has(statement, "unique")
    THEN Returned(set_unique_columns_from_alter(statement,
                    set_alter_to_table_data("unique", statement, target_table)))
    ELSE IF Has(statement, "default")
    THEN Returned(set_default_columns_from_alter(statement,
                    set_alter_to_table_data("default", statement, target_table)))
    ELSE IF Has(statement, "primary_key")
    THEN Returned(set_alter_to_table_data("primary_key", statement, target_table))
    ELSE Returned(target_table)

\* schema_key of Output.__init__
schema_key(mode) == IF mode = "bigquery" THEN "dataset" ELSE "schema"

\* clean_up_index_statement deleting clustered in every mode
clean_up_index_statement_unclustered(statement, mode) ==
    DelKey(DelKey(DelKey(statement, schema_key(mode)), "table_name"), "clustered")

\* clean_up_index_statement
clean_up_index_statement(statement, mode) ==
    LET cleaned == DelKey(DelKey(statement, schema_key(mode)), "table_name")
    IN  IF mode # "mssql" THEN DelKey(cleaned, "clustered") ELSE cleaned

\* get_table_from_tables_data: the registered object, or ValueError
get_table_from_tables_data(registry, schema, table_name) ==
    LET table_id == get_table_id(schema, table_name)
    IN  IF table_id \in DOMAIN registry
        THEN Returned(registry[table_id])
        ELSE Raised("ValueError", table_id)

\* the mutation reaching every object with the target's table name
MutateSameName(objects, target_table, value) ==
    [k \in 1..Len(objects) |->
        IF normalize_name(objects[k].table_name) = normalize_name(objects[target_table].table_name)
        THEN [value EXCEPT !.schema = objects[k].schema, !.table_name = objects[k].table_name,
                           !.init_data = objects[k].init_data]
        ELSE objects[k]]

\* the objects after target_table (a reference) was mutated to value
Mutate(objects, target_table, value) == [objects EXCEPT ![target_table] = value]

\* add_alter_to_table skipping the record when the table is unknown
add_alter_to_table_skipping(objects, registry, statement) ==
    LET table_id == get_table_id(statement.schema, statement.alter_table_name)
    IN  IF table_id \notin DOMAIN registry THEN Returned(objects)
        ELSE LET done == alter_dispatch(objects[registry[table_id]], statement)
             IN  IF done.exc # None THEN done
                 ELSE Returned([objects EXCEPT ![registry[table_id]] = done.value])

\* add_alter_to_table: the objects after the record, or the exception
add_alter_to_table(objects, registry, statement) ==
    LET found == get_table_from_tables_data(registry, statement.schema,
                                            statement.alter_table_name)
    IN  IF found.exc # None THEN found
        ELSE LET done == alter_dispatch(objects[found.value], statement)
             IN  IF done.exc # None THEN done
                 ELSE Returned(Mutate(objects, found.value, done.value))

\* add_index_to_table: the objects after the record, or the exception
add_index_to_table(objects, registry, statement, mode) ==
    LET found == get_table_from_tables_data(registry, statement[schema_key(mode)],
                                            statement.table_name)
    IN  IF found.exc # None THEN found
        ELSE Returned(Mutate(objects, found.value,
                [objects[found.value] EXCEPT !.index =
                    Append(@, clean_up_index_statement(statement, mode))]))

\* process_alter_and_index_result
process_alter_and_index_result(objects, registry, statement, mode) ==
    IF Get(statement, "index_name", "") # ""
    THEN add_index_to_table(objects, registry, statement, mode)
    ELSE IF Get(statement, "alter_table_name", "") # ""
    THEN add_alter_to_table(objects, registry, statement)
    ELSE Returned(objects)

\* the registration keeping the first object of a table id
RegisterFirst(registry, table_id, ref) ==
    [k \in DOMAIN registry \cup {table_id} |-> IF k \in DOMAIN registry THEN registry[k] ELSE ref]

\* tables_dict[table_id] = table_data
Register(registry, table_id, ref) ==
    [k \in DOMAIN registry \cup {table_id} |-> IF k = table_id THEN ref ELSE registry[k]]

----
\* One iteration of the loop of Output.format over the record statement.
format_statement(statement) ==
    /\ status = "running"
    /\ Len(parser_output) < MaxStatements
    /\ parser_output' = Append(parser_output, statement)
    /\ output_mode' = output_mode
    /\ group_by_type' = group_by_type
    /\ IF Has(statement, "index_name") \/ Has(statement, "alter_table_name")
       THEN LET done == process_alter_and_index_result(table_data, tables_dict,
                                                       statement, output_mode)
            IN  IF done.exc # None
                THEN /\ status' = "raised"
                     /\ error' = done.exc
                     /\ UNCHANGED <<tables_dict, table_data, final_result>>
                ELSE /\ table_data' = done.value
                     /\ UNCHANGED <<tables_dict, final_result, status, error>>
       ELSE IF Get(statement, "table_name", "") # ""
       THEN \* process_statement_data, the table branch
            LET built == TableData_init(SetKey(statement, "output_mode", output_mode))
                ref == Len(table_data) + 1
            IN  /\ table_data' = Append(table_data, built)
                /\ tables_dict' = Register(tables_dict,
                        get_table_id(built[schema_key(output_mode)], built.table_name), ref)
                /\ final_result' = Append(final_result, to_dict(table_data', ref))
                /\ UNCHANGED <<status, error>>
       ELSE \* process_statement_data, the pass-through branch
            /\ final_result' = Append(final_result,
                    [statement |-> dialects_clean_up(output_mode, statement)])
            /\ UNCHANGED <<tables_dict, table_data, status, error>>

\* the keys of an item of final_result: those of the emitted table map, or
\* those of the record passed through
ItemKeys(item) == IF Has(item, "table") THEN item.keys ELSE DOMAIN item.statement

\* keys_map, in its order
keys_map ==
    <<<<"table_name", "tables">>, <<"sequence_name", "sequences">>,
      <<"type_name", "types">>, <<"domain_name", "domains">>,
      <<"schema_name", "schemas">>, <<"tablespace_name", "tablespaces">>,
      <<"database_name", "databases">>, <<"value", "ddl_properties">>,
      <<"comments", "comments">>>>

\* the first key of keys_map the item has, 0 when it has none
FirstKey(item) ==
    LET hits == {i \in 1..Len(keys_map) : keys_map[i][1] \in ItemKeys(item)}
    IN  IF hits = {} THEN 0 ELSE CHOOSE i \in hits : \A j \in hits : i <= j

\* the body of the loop over final_result
GroupItem(result_as_dict, item) ==
    LET key == FirstKey(item)
    IN  IF key = 0 THEN result_as_dict
        ELSE LET bucket == keys_map[key][2]
                 type == Get(result_as_dict, bucket, <<>>)
             IN  SetKey(result_as_dict, bucket,
                        IF keys_map[key][1] # "comments" THEN Append(type, item)
                        ELSE type \o item.statement.comments)

RECURSIVE GroupFrom(_, _, _)
GroupFrom(result_as_dict, items, i) ==
    IF i > Len(items) THEN result_as_dict
    ELSE GroupFrom(GroupItem(result_as_dict, items[i]), items, i + 1)

\* group_by_type_result keeping an empty comments bucket
group_by_type_result_keeping(items) ==
    GroupFrom([tables |-> <<>>, types |-> <<>>, sequences |-> <<>>, domains |-> <<>>,
               schemas |-> <<>>, ddl_properties |-> <<>>, comments |-> <<>>],
              items, 1)

\* group_by_type_result: the new final_result
group_by_type_result(items) ==
    LET result_as_dict ==
            GroupFrom([tables |-> <<>>, types |-> <<>>, sequences |-> <<>>,
                       domains |-> <<>>, schemas |-> <<>>, ddl_properties |-> <<>>,
                       comments |-> <<>>], items, 1)
    IN  IF result_as_dict.comments = <<>> THEN DelKey(result_as_dict, "comments")
        ELSE result_as_dict

\* The loop of Output.format ends: the result is grouped when group_by_type
\* is set, and format returns final_result.
Return ==
    /\ status = "running"
    /\ status' = "returned"
    /\ final_result' = IF group_by_type THEN group_by_type_result(final_result)
                       ELSE final_result
    /\ UNCHANGED <<output_mode, group_by_type, parser_output, tables_dict, table_data, error>>

----
\* The statement records the Parser yields.  Every column of a CREATE TABLE
\* record carries name, unique, nullable, default and the primary_key flag.

Column(name, unique, nullable, primary_key) ==
    [name |-> name, unique |-> unique, nullable |-> nullable, default |-> "None",
     primary_key |-> primary_key]

CreateTable(schema, table_name, columns) ==
    [schema |-> schema, table_name |-> table_name, columns |-> columns]

\* CREATE TABLE records of the streams: s.t twice (the second spelled
\* s.[t]) and r.t, with the sources of unique varied on s.t
StreamColumns(unique) ==
    <<Column("a", unique, TRUE, TRUE), Column("b", FALSE, TRUE, FALSE)>>

StreamTables ==
    {CreateTable("s", "t", StreamColumns(u)) : u \in BOOLEAN}
    \cup {SetKey(CreateTable("s", "t", StreamColumns(FALSE)), "unique_statement", <<"b">>),
          SetKey(CreateTable("s", "t", StreamColumns(FALSE)), "constraints",
                 [unique |-> [columns |-> <<"b">>]]),
          SetKey(CreateTable("s", "t", StreamColumns(FALSE)), "unique", <<"b">>),
          CreateTable("s", "[t]", StreamColumns(TRUE)),
          CreateTable("r", "t", StreamColumns(FALSE))}

\* the tables ALTER and CREATE INDEX records name: s.t (spelled S.T), which
\* every kind of record names, and r.t, which ADD UNIQUE and CREATE INDEX name
AlterTarget == <<"S", "T">>
OtherTarget == <<"r", "t">>

AlterTable(target, key, operation) ==
    SetKey([schema |-> target[1], alter_table_name |-> target[2]], key, operation)

AddColumnsRecords ==
    {AlterTable(AlterTarget, "columns", <<Column("c", FALSE, TRUE, FALSE)>>)}

RenameRecords ==
    {AlterTable(AlterTarget, "columns_to_rename", pairs) :
        pairs \in {<<[from |-> "A", to |-> "c"]>>, <<[from |-> "b", to |-> "a"]>>}}

DropRecords ==
    {AlterTable(AlterTarget, "columns_to_drop", names) : names \in {<<"A">>, <<"b">>}}

ModifyRecords ==
    {AlterTable(AlterTarget, "columns_to_modify", columns) :
        columns \in {<<Column("A", TRUE, TRUE, FALSE)>>,
                     <<DelKey(Column("b", FALSE, TRUE, FALSE), "primary_key")>>}}

CheckRecords ==
    {AlterTable(AlterTarget, "check",
                [constraint_name |-> "ck", statement |-> <<"a", ">", "0">>])}

UniqueRecords ==
    {AlterTable(AlterTarget, "unique", [columns |-> names]) : names \in {<<"b">>, <<"A">>}}
    \cup {AlterTable(OtherTarget, "unique", [columns |-> <<"b">>])}

DefaultRecords ==
    {AlterTable(AlterTarget, "default", [columns |-> <<"b">>, value |-> "0"])}

PrimaryKeyRecords ==
    {AlterTable(AlterTarget, "primary_key", [columns |-> <<"b">>])}

\* an ALTER record with none of the recognized operation keys
UnrecognizedRecords ==
    {[schema |-> AlterTarget[1], alter_table_name |-> AlterTarget[2]]}

AlterRecords ==
    AddColumnsRecords \cup RenameRecords \cup DropRecords \cup ModifyRecords
    \cup CheckRecords \cup UniqueRecords \cup DefaultRecords \cup PrimaryKeyRecords
    \cup UnrecognizedRecords

IndexRecords ==
    {[index_name |-> "i", schema |-> t[1], table_name |-> t[2], clustered |-> FALSE,
      columns |-> <<"a">>] : t \in {AlterTarget, OtherTarget}}

\* records that are neither ALTER nor INDEX and have no table_name
OtherRecords == {[sequence_name |-> "q", schema |-> "s"]}

OutputModes == {"sql", "mssql"}

----
\* Output.__init__
Init ==
    /\ output_mode \in OutputModes
    /\ group_by_type = FALSE
    /\ parser_output = <<>>
    /\ tables_dict = EmptyDict
    /\ table_data = <<>>
    /\ final_result = <<>>
    /\ status = "running"
    /\ error = None

ProcessTable ==
    \E statement \in StreamTables :
        /\ status = "running"
        /\ format_statement(statement)

ProcessOther ==
    \E statement \in OtherRecords :
        /\ status = "running"
        /\ format_statement(statement)

ProcessIndex ==
    \E statement \in IndexRecords :
        /\ status = "running"
        /\ format_statement(statement)

AlterAddColumns ==
    \E statement \in AddColumnsRecords :
        /\ status = "running"
        /\ format_statement(statement)

AlterRename ==
    \E statement \in RenameRecords :
        /\ status = "running"
        /\ format_statement(statement)

AlterDrop ==
    \E statement \in DropRecords :
        /\ status = "running"
        /\ format_statement(statement)

AlterModify ==
    \E statement \in ModifyRecords :
        /\ status = "running"
        /\ format_statement(statement)

AlterCheck ==
    \E statement \in CheckRecords :
        /\ status = "running"
        /\ format_statement(statement)

AlterUnique ==
    \E statement \in UniqueRecords :
        /\ status = "running"
        /\ format_statement(statement)

AlterDefault ==
    \E statement \in DefaultRecords :
        /\ status = "running"
        /\ format_statement(statement)

AlterPrimaryKey ==
    \E statement \in PrimaryKeyRecords :
        /\ status = "running"
        /\ format_statement(statement)

AlterUnrecognized ==
    \E statement \in UnrecognizedRecords :
        /\ status = "running"
        /\ format_statement(statement)

Next ==
    \/ ProcessTable
    \/ ProcessOther
    \/ ProcessIndex
    \/ AlterAddColumns
    \/ AlterRename
    \/ AlterDrop
    \/ AlterModify
    \/ AlterCheck
    \/ AlterUnique
    \/ AlterDefault
    \/ AlterPrimaryKey
    \/ AlterUnrecognized
    \/ Return

Spec == Init /\ [][Next]_vars

----
\* The build of one table from one CREATE TABLE record, with the sources of
\* the primary key varied: the columns' flags, the declared list and the
\* table-level constraints.

ColumnNames == <<"a", "b", "c", "d">>

\* columns a, b, ... (at most MaxColumns), each nullable or not, flagged or not
BuildColumns ==
    UNION {{[i \in 1..n |-> Column(ColumnNames[i], FALSE, f[i][1], f[i][2])] :
                f \in [1..n -> BOOLEAN \X BOOLEAN]} : n \in 1..MaxColumns}

\* the declared primary-key lists; <<>> also stands for no list declared
DeclaredKeys == {<<>>, <<"a">>, <<"b", "a">>}

BuildConstraints ==
    {[primary_keys |-> <<[columns |-> <<"b">>]>>],
     [primary_keys |-> <<[columns |-> <<"b">>], [columns |-> <<"a">>]>>],
     [unique |-> [columns |-> <<"a">>]]}

BuildTables ==
    LET plain == {CreateTable("s", "t", columns) : columns \in BuildColumns}
        keyed == plain \cup {SetKey(t, "primary_key", key) : t \in plain, key \in DeclaredKeys}
    IN  keyed \cup {SetKey(t, "constraints", c) : t \in keyed, c \in BuildConstraints}

\* core.Output.format reads its first record, a CREATE TABLE
BuildTable ==
    \E statement \in BuildTables :
        /\ parser_output = <<>>
        /\ format_statement(statement)

\* common.Output.process_is_it_table_item on the dictionary of a CREATE TABLE
\* record: the dictionary is registered under its table id and resolved in place
ProcessIsItTableItem ==
    \E statement \in BuildTables :
        /\ status = "running"
        /\ parser_output = <<>>
        /\ parser_output' = Append(parser_output, statement)
        /\ table_data' = Append(table_data,
                process_is_it_table_item(process_entities_table_data(statement)))
        /\ tables_dict' = Register(tables_dict,
                get_table_id(statement.schema, statement.table_name), Len(table_data) + 1)
        /\ UNCHANGED <<output_mode, group_by_type, final_result, status, error>>

\* records that are not ALTER or INDEX and have no table_name, or an empty one
PassThroughRecords ==
    LET unnamed == [schema |-> "s", columns |-> <<[name |-> "a", references |-> None]>>]
        referring == {unnamed} \cup
            {SetKey(unnamed, "ref_columns", <<[name |-> n, table |-> "x"]>>) : n \in {"a", "z"}}
        keyed == referring \cup {SetKey(r, "unique", <<"a">>) : r \in referring}
    IN  {[sequence_name |-> "q", schema |-> "s"]}
            \cup keyed \cup {SetKey(r, "table_name", "") : r \in keyed}

\* core.Output.format reads its first record, not a table
BuildOther ==
    \E statement \in PassThroughRecords :
        /\ parser_output = <<>>
        /\ format_statement(statement)

\* common.Output.format reads its first record, not a table
ProcessEntitiesOther ==
    \E statement \in PassThroughRecords :
        /\ status = "running"
        /\ parser_output = <<>>
        /\ parser_output' = Append(parser_output, statement)
        /\ final_result' = Append(final_result,
                [statement |-> process_entities_other(output_mode, statement)])
        /\ UNCHANGED <<output_mode, group_by_type, tables_dict, table_data, status, error>>

NextBuild ==
    \/ BuildTable
    \/ ProcessIsItTableItem
    \/ BuildOther
    \/ ProcessEntitiesOther
    \/ Return

SpecBuild == Init /\ [][NextBuild]_vars

----
\* The result grouper: streams of records of every kind the grouper knows,
\* and of none, with group_by_type set or not.

GroupRecords ==
    {CreateTable("s", "t", <<Column("a", FALSE, TRUE, TRUE)>>),
     [sequence_name |-> "q", schema |-> "s"],
     [type_name |-> "y", schema |-> "s"],
     [domain_name |-> "d", schema |-> "s"],
     [schema_name |-> "s"],
     [tablespace_name |-> "ts"],
     [database_name |-> "db"],
     [value |-> "v", name |-> "n"],
     [comments |-> <<"one", "two">>],
     [comments |-> <<>>],
     [schema |-> "s"]}

InitGroup ==
    /\ output_mode \in OutputModes
    /\ group_by_type \in BOOLEAN
    /\ parser_output = <<>>
    /\ tables_dict = EmptyDict
    /\ table_data = <<>>
    /\ final_result = <<>>
    /\ status = "running"
    /\ error = None

\* core.Output.format reads a record that is not ALTER or INDEX
GroupRecord ==
    \E statement \in GroupRecords :
        /\ status = "running"
        /\ format_statement(statement)

NextGroup ==
    \/ GroupRecord
    \/ Return

SpecGroup == InitGroup /\ [][NextGroup]_vars

----
\* Dropping and modifying columns: one table with the columns a and b, then
\* DROP COLUMNS and MODIFY COLUMNS records naming one column, two columns,
\* the same column twice, or none the table has, and a RENAME COLUMNS record
\* that gives b the name of a; RENAME COLUMNS records with two pairs, the
\* second naming what the first made, and with a pair for no live column.

ColumnsTables == {CreateTable("s", "t", StreamColumns(FALSE))}

ColumnsDropRecords ==
    {AlterTable(AlterTarget, "columns_to_drop", names) :
        names \in {<<"A">>, <<"b">>, <<"A", "b">>, <<"z">>, <<"z", "b">>}}

ColumnsModifyRecords ==
    {AlterTable(AlterTarget, "columns_to_modify", columns) :
        columns \in {<<Column("A", TRUE, TRUE, FALSE)>>,
                     <<Column("b", FALSE, FALSE, FALSE)>>,
                     <<Column("A", TRUE, TRUE, FALSE), Column("b", FALSE, FALSE, FALSE)>>,
                     <<Column("z", FALSE, TRUE, FALSE)>>,
                     <<Column("b", FALSE, FALSE, FALSE), Column("B", TRUE, TRUE, FALSE)>>}}

\* core.Output.format reads its first record, a CREATE TABLE
ColumnsTable ==
    \E statement \in ColumnsTables :
        /\ parser_output = <<>>
        /\ format_statement(statement)

ColumnsDrop ==
    \E statement \in ColumnsDropRecords :
        /\ status = "running"
        /\ format_statement(statement)

ColumnsModify ==
    \E statement \in ColumnsModifyRecords :
        /\ status = "running"
        /\ format_statement(statement)

ColumnsRenameRecords ==
    {AlterTable(AlterTarget, "columns_to_rename", pairs) :
        pairs \in {<<[from |-> "b", to |-> "a"]>>,
                   <<[from |-> "A", to |-> "c"], [from |-> "c", to |-> "d"]>>,
                   <<[from |-> "A", to |-> "b"], [from |-> "B", to |-> "c"]>>,
                   <<[from |-> "z", to |-> "y"]>>}}

ColumnsRename ==
    \E statement \in ColumnsRenameRecords :
        /\ status = "running"
        /\ format_statement(statement)

NextColumns ==
    \/ ColumnsTable
    \/ ColumnsDrop
    \/ ColumnsModify
    \/ ColumnsRename
    \/ Return

SpecColumns == Init /\ [][NextColumns]_vars

----
\* Indexes: one table, then CREATE INDEX records for it, in the generic mode,
\* in mssql and in bigquery, where the record names the dataset.

IndexModes == {"sql", "mssql", "bigquery"}

IndexTables == {CreateTable("s", "t", StreamColumns(FALSE))}

CreateIndexRecords(mode) ==
    {SetKey([index_name |-> name, table_name |-> "T", clustered |-> clustered,
             unique |-> unique, columns |-> <<"a">>], schema_key(mode), "S") :
        name \in {"i", "j"}, clustered \in BOOLEAN, unique \in BOOLEAN}

InitIndex ==
    /\ output_mode \in IndexModes
    /\ group_by_type = FALSE
    /\ parser_output = <<>>
    /\ tables_dict = EmptyDict
    /\ table_data = <<>>
    /\ final_result = <<>>
    /\ status = "running"
    /\ error = None

\* core.Output.format reads its first record, a CREATE TABLE
IndexTable ==
    \E statement \in IndexTables :
        /\ parser_output = <<>>
        /\ format_statement(statement)

IndexCreate ==
    \E statement \in CreateIndexRecords(output_mode) :
        /\ parser_output # <<>>
        /\ format_statement(statement)

NextIndex ==
    \/ IndexTable
    \/ IndexCreate
    \/ Return

SpecIndex == InitIndex /\ [][NextIndex]_vars

----
\* References: one CREATE TABLE record with the columns a and b and a working
\* list of up to MaxReferences reference descriptors, naming a, b or no
\* column, built by core.Output and by common.Output.

MaxReferences == 2

ReferenceDescriptors ==
    {[name |-> name, table |-> table] : name \in {"a", "b", "z"}, table \in {"x"}}
        \cup {[name |-> "a", table |-> "y"]}

RefColumns ==
    <<[name |-> "a", unique |-> FALSE, nullable |-> TRUE, default |-> "None",
       references |-> None, primary_key |-> FALSE],
      [name |-> "b", unique |-> FALSE, nullable |-> TRUE, default |-> "None",
       references |-> None, primary_key |-> FALSE]>>

RefTables ==
    LET plain == CreateTable("s", "t", RefColumns)
        referring == {SetKey(plain, "ref_columns", refs) :
                        refs \in UNION {[1..n -> ReferenceDescriptors] : n \in 0..MaxReferences}}
    IN  {plain} \cup referring \cup {SetKey(t, "references", <<>>) : t \in referring}

\* core.Output.format reads its first record, a CREATE TABLE
RefsTable ==
    \E statement \in RefTables :
        /\ parser_output = <<>>
        /\ format_statement(statement)

\* common.Output.format reads its first record, a CREATE TABLE: the
\* dictionary process_entities returns is registered and emitted
RefsEntities ==
    \E statement \in RefTables :
        /\ status = "running"
        /\ parser_output = <<>>
        /\ parser_output' = Append(parser_output, statement)
        /\ table_data' = Append(table_data, process_entities_table(output_mode, statement))
        /\ tables_dict' = Register(tables_dict,
                get_table_id(statement.schema, statement.table_name), Len(table_data) + 1)
        /\ final_result' = Append(final_result,
                [table |-> Len(table_data) + 1,
                 keys |-> DOMAIN table_data'[Len(table_data) + 1],
                 copy |-> None])
        /\ UNCHANGED <<output_mode, group_by_type, status, error>>

NextRefs ==
    \/ RefsTable
    \/ RefsEntities
    \/ Return

SpecRefs == Init /\ [][NextRefs]_vars

\* ---------------------------------------------------------------------
\* ALTER ADD COLUMNS and DROP COLUMNS of common.Output: the accumulated
\* columns bucket of the ledger and the live column list.

\* create_alter_column_references
create_alter_column_references(index, column, ref_statement) ==
    [name |-> column.name,
     constraint_name |-> Get(column, "constraint_name", None),
     references |-> SetKey(DelKey(ref_statement, "columns"), "column",
                           ref_statement.columns[index])]

\* get_normalized_table_columns_names
get_normalized_table_columns_names(target_table) ==
    [i \in 1..Len(target_table.columns) |-> normalize_name(target_table.columns[i].name)]

RECURSIVE AddFromAlter(_, _, _)
\* for column in target_table["alter"]["columns"]: append the columns whose
\* name is not in table_columns, the names read before the loop
AddFromAlter(columns, alter_columns, table_columns) ==
    IF alter_columns = <<>> THEN columns
    ELSE AddFromAlter(
            IF ~InList(normalize_name(Head(alter_columns).name), table_columns)
            THEN Append(columns, Head(alter_columns)) ELSE columns,
            Tail(alter_columns), table_columns)

\* prepare_alter_columns (common.py; base_data.py has the same body)
prepare_alter_columns(target_table, statement) ==
    LET alter_columns ==
            [num \in 1..Len(statement.columns) |->
                IF ~Falsy(Get(statement, "references", None))
                THEN create_alter_column_references(num, statement.columns[num],
                                                    statement.references)
                ELSE statement.columns[num]]
        bucket == IF Falsy(Get(target_table.alter, "columns", <<>>))
                  THEN alter_columns
                  ELSE target_table.alter.columns \o alter_columns
        table_columns == get_normalized_table_columns_names(target_table)
    IN  SetKey(SetKey(target_table, "alter", SetKey(target_table.alter, "columns", bucket)),
               "columns", AddFromAlter(target_table.columns, bucket, table_columns))

RECURSIVE common_DropEach(_, _)
\* the loop of common.alter_drop_columns over statement["columns_to_drop"]
common_DropEach(target_table, columns_to_drop) ==
    IF columns_to_drop = <<>> THEN target_table
    ELSE LET index == FirstMatch(target_table.columns, Head(columns_to_drop))
             next ==
                IF index = 0 THEN target_table
                ELSE SetKey(SetKey(target_table, "alter",
                                SetKey(target_table.alter, "dropped_columns",
                                       target_table.columns[index])),
                            "columns", RemoveAt(target_table.columns, index))
         IN  common_DropEach(next, Tail(columns_to_drop))

\* common.alter_drop_columns
common_alter_drop_columns(target_table, statement) ==
    common_DropEach(SetKey(target_table, "alter",
                        EnsureList(target_table.alter, "dropped_columns")),
                    statement.columns_to_drop)

\* common.Output.add_alter_to_table, the "columns" and "columns_to_drop"
\* branches: the objects after the record, or the exception
common_add_alter_to_table(objects, registry, statement) ==
    LET found == get_table_from_tables_data(registry, statement.schema,
                                            statement.alter_table_name)
    IN  IF found.exc # None THEN found
        ELSE IF Has(statement, "columns")
        THEN Returned(SetAt(objects, found.value,
                        prepare_alter_columns(objects[found.value], statement)))
        ELSE IF Has(statement, "columns_to_drop")
        THEN Returned(SetAt(objects, found.value,
                        common_alter_drop_columns(objects[found.value], statement)))
        ELSE Returned(objects)

\* the ALTER records read after the CREATE TABLE record
MaxAlters == 3

LedgerTables == {CreateTable("s", "t", StreamColumns(FALSE))}

AddedColumn(name) == [name |-> name, unique |-> FALSE, nullable |-> TRUE, default |-> "None"]

LedgerAddRecords ==
    {AlterTable(target, "columns", columns) :
        target \in {AlterTarget, OtherTarget},
        columns \in {<<AddedColumn("c")>>, <<AddedColumn("d")>>,
                     <<AddedColumn("A")>>, <<AddedColumn("c"), AddedColumn("d")>>}}
        \cup {SetKey(AlterTable(AlterTarget, "columns", <<AddedColumn("c")>>), "references",
                     [table |-> "x", columns |-> <<"id">>])}

LedgerDropRecords ==
    {AlterTable(AlterTarget, "columns_to_drop", names) :
        names \in {<<"c">>, <<"A">>, <<"d">>, <<"z">>}}

\* common.Output.format reads its first record, a CREATE TABLE
LedgerTable ==
    \E statement \in LedgerTables :
        /\ status = "running"
        /\ parser_output = <<>>
        /\ parser_output' = Append(parser_output, statement)
        /\ table_data' = Append(table_data, process_entities_table(output_mode, statement))
        /\ tables_dict' = Register(tables_dict,
                get_table_id(statement.schema, statement.table_name), Len(table_data) + 1)
        /\ final_result' = Append(final_result,
                [table |-> Len(table_data) + 1,
                 keys |-> DOMAIN table_data'[Len(table_data) + 1],
                 copy |-> None])
        /\ UNCHANGED <<output_mode, group_by_type, status, error>>

\* common.Output.format reads an ALTER record
common_format_alter(statement) ==
    /\ status = "running"
    /\ parser_output # <<>>
    /\ Len(parser_output) <= MaxAlters
    /\ parser_output' = Append(parser_output, statement)
    /\ LET done == common_add_alter_to_table(table_data, tables_dict, statement)
       IN  IF done.exc # None
           THEN /\ status' = "raised"
                /\ error' = done.exc
                /\ UNCHANGED table_data
           ELSE /\ table_data' = done.value
                /\ UNCHANGED <<status, error>>
    /\ UNCHANGED <<output_mode, group_by_type, tables_dict, final_result>>

LedgerAdd ==
    \E statement \in LedgerAddRecords :
        /\ Has(statement, "columns")
        /\ common_format_alter(statement)

LedgerDrop ==
    \E statement \in LedgerDropRecords :
        /\ Has(statement, "columns_to_drop")
        /\ common_format_alter(statement)

NextLedger ==
    \/ LedgerTable
    \/ LedgerAdd
    \/ LedgerDrop
    \/ Return

SpecLedger == Init /\ [][NextLedger]_vars

\* ---------------------------------------------------------------------
\* Streams with records that carry the index_name or alter_table_name key
\* with an empty value.

\* format sends them to process_alter_and_index_result by the key's presence
EmptyNameRecords ==
    {[index_name |-> "", schema |-> AlterTarget[1], table_name |-> AlterTarget[2],
      clustered |-> FALSE, columns |-> <<"a">>],
     AlterTable(<<AlterTarget[1], "">>, "columns_to_drop", <<"b">>)}

RecordsTable ==
    \E statement \in ColumnsTables :
        /\ Get(statement, "table_name", "") # ""
        /\ format_statement(statement)

RecordsOther ==
    \E statement \in OtherRecords :
        /\ ~Has(statement, "table_name")
        /\ format_statement(statement)

RecordsAlter ==
    \E statement \in DropRecords \cup UniqueRecords :
        /\ Get(statement, "alter_table_name", "") # ""
        /\ format_statement(statement)

RecordsIndex ==
    \E statement \in IndexRecords :
        /\ Get(statement, "index_name", "") # ""
        /\ format_statement(statement)

RecordsEmptyName ==
    \E statement \in EmptyNameRecords :
        /\ Has(statement, "index_name") \/ Has(statement, "alter_table_name")
        /\ format_statement(statement)

NextRecords ==
    \/ RecordsTable
    \/ RecordsOther
    \/ RecordsAlter
    \/ RecordsIndex
    \/ RecordsEmptyName
    \/ Return

SpecRecords == Init /\ [][NextRecords]_vars

----
\* The field filter: one CREATE TABLE record with any of the optional keys,
\* built and emitted in the generic mode, in a dialect the mixin's fields are
\* allowed in, and in one they are not.

FieldModes == {"sql", "mssql", "hql"}

\* the value each optional key comes with: empty or falsy where the field
\* allows it
FieldValues ==
    [constraints |-> EmptyDict, if_not_exists |-> FALSE,
     partition_by |-> [columns |-> <<"a">>], replace |-> TRUE, comment |-> "",
     like |-> EmptyDict, unique |-> <<"a">>, temp |-> TRUE,
     tblproperties |-> EmptyDict, engine |-> "e"]

FieldTables ==
    LET base == CreateTable("s", "t", <<Column("a", FALSE, TRUE, FALSE)>>)
    IN  {[k \in DOMAIN base \cup keys |-> IF k \in keys THEN FieldValues[k] ELSE base[k]] :
            keys \in SUBSET DOMAIN FieldValues}

InitFields ==
    /\ output_mode \in FieldModes
    /\ group_by_type = FALSE
    /\ parser_output = <<>>
    /\ tables_dict = EmptyDict
    /\ table_data = <<>>
    /\ final_result = <<>>
    /\ status = "running"
    /\ error = None

\* core.Output.format reads its first record, a CREATE TABLE
FieldTable ==
    \E statement \in FieldTables :
        /\ parser_output = <<>>
        /\ format_statement(statement)

NextFields ==
    \/ FieldTable
    \/ Return

SpecFields == InitFields /\ [][NextFields]_vars

----
\* What the consumed records say, read from parser_output alone.

\* the record takes the ALTER/INDEX branch of format and looks a table up
LooksUp(statement) ==
    \/ Get(statement, "index_name", "") # ""
    \/ /\ Has(statement, "alter_table_name")
       /\ Get(statement, "alter_table_name", "") # ""

\* the table id such a record names
LookedUp(statement) ==
    IF Get(statement, "index_name", "") # ""
    THEN get_table_id(statement[schema_key(output_mode)], statement.table_name)
    ELSE get_table_id(statement.schema, statement.alter_table_name)

\* the record is a CREATE TABLE record: format builds and registers a table
IsTable(statement) ==
    /\ ~Has(statement, "index_name")
    /\ ~Has(statement, "alter_table_name")
    /\ Get(statement, "table_name", "") # ""

TableId(statement) == get_table_id(statement.schema, statement.table_name)

\* the positions of the CREATE TABLE records consumed so far
TablePositions == {p \in 1..Len(parser_output) : IsTable(parser_output[p])}

\* the position of the record the k-th TableData object was built from
CreatedAt(k) ==
    LET positions == TablePositions
    IN  CHOOSE p \in positions : Cardinality({q \in positions : q <= p}) = k

\* the table ids created before position p
CreatedBefore(p) == {TableId(parser_output[q]) : q \in {q \in TablePositions : q < p}}

\* the positions of the ALTER/INDEX records that name the table of the k-th
\* object while it is the registered one: after its CREATE TABLE record and
\* before the next CREATE TABLE record with the same table id
OperationsOn(k) ==
    LET created == CreatedAt(k)
        id == TableId(parser_output[created])
    IN  {p \in (created + 1)..Len(parser_output) :
            /\ LooksUp(parser_output[p])
            /\ LookedUp(parser_output[p]) = id
            /\ \A q \in (created + 1)..(p - 1) :
                  IsTable(parser_output[q]) => TableId(parser_output[q]) # id}

\* one ALTER/INDEX record applied to a table value
Applied(table, statement) ==
    IF Get(statement, "index_name", "") # ""
    THEN [table EXCEPT !.index = Append(@, clean_up_index_statement(statement, output_mode))]
    ELSE LET done == alter_dispatch(table, statement)
         IN  IF done.exc = None THEN done.value ELSE table

RECURSIVE AppliedFrom(_, _, _)
\* the records at the positions >= p of the set, applied in stream order
AppliedFrom(table, positions, p) ==
    IF p > Len(parser_output) THEN table
    ELSE AppliedFrom(IF p \in positions THEN Applied(table, parser_output[p]) ELSE table,
                     positions, p + 1)

\* the k-th table as built from its record, then changed by every later
\* operation on it, in stream order
Reconciled(k) ==
    LET built == TableData_init(SetKey(parser_output[CreatedAt(k)], "output_mode", output_mode))
        positions == OperationsOn(k)
    IN  AppliedFrom(built, positions, 1)

\* the last record consumed
LastStatement == parser_output[Len(parser_output)]

----
\* C1: an ALTER or CREATE INDEX record naming a table id that no earlier
\* CREATE TABLE record of the stream created makes format raise the
\* unknown-table error (ValueError) carrying that table id; the run stops
\* there: the record is the last one consumed and format never returns.
C1_UnknownTableAborts ==
    \A p \in 1..Len(parser_output) :
        (LooksUp(parser_output[p]) /\ LookedUp(parser_output[p]) \notin CreatedBefore(p))
        => /\ p = Len(parser_output)
           /\ status = "raised"
           /\ error = Some([type |-> "ValueError", detail |-> LookedUp(parser_output[p])])

\* the run was aborted by an ALTER of r.t after s.t had been created
C1_Witness ==
    /\ Len(parser_output) = 2
    /\ IsTable(parser_output[1])
    /\ Has(parser_output[2], "alter_table_name")
    /\ status = "raised"
    /\ error = Some([type |-> "ValueError", detail |-> <<"t", "r">>])
    /\ Len(final_result) = 1

\* C2: when format returns, the map emitted for each table is the table as
\* built from its CREATE TABLE record and then changed by every later ALTER
\* and CREATE INDEX record on it, in stream order; it is not the snapshot
\* taken when the record was processed.
C2_EmittedReflectsLaterOperations ==
    status = "returned" =>
        \A i \in 1..Len(final_result) :
            Has(final_result[i], "table") =>
                LET reconciled == Reconciled(final_result[i].table)
                IN  Emitted(final_result[i], table_data)
                        = [key \in final_result[i].keys |-> reconciled[key]]

\* format returned a table that two later operations changed
C2_Witness ==
    /\ status = "returned"
    /\ Len(parser_output) = 3
    /\ Len(final_result) = 1
    /\ Cardinality(OperationsOn(1)) = 2
    /\ Emitted(final_result[1], table_data).alter # EmptyDict
    /\ Emitted(final_result[1], table_data)
        # Emitted(final_result[1], <<TableData_init(SetKey(parser_output[1], "output_mode", output_mode))>>)

\* the object an ALTER/INDEX record is applied to, 0 when it names no
\* registered table
Target(statement) ==
    IF LooksUp(statement) /\ LookedUp(statement) \in DOMAIN tables_dict
    THEN tables_dict[LookedUp(statement)] ELSE 0

\* the step consumes one record, and it takes the ALTER/INDEX branch
ConsumesOperation ==
    /\ Len(parser_output') = Len(parser_output) + 1
    /\ \/ Has(parser_output'[Len(parser_output')], "index_name")
       \/ Has(parser_output'[Len(parser_output')], "alter_table_name")

\* C3: a step that applies an ALTER or CREATE INDEX record changes no table
\* object other than the one registered under the record's table id, no
\* entry of final_result other than the map of that object, and neither the
\* registry nor the length of the result.
C3_OperationFrame ==
    [][ConsumesOperation =>
        LET target == Target(parser_output'[Len(parser_output')])
        IN  /\ Len(table_data') = Len(table_data)
            /\ \A k \in 1..Len(table_data) : k # target => table_data'[k] = table_data[k]
            /\ tables_dict' = tables_dict
            /\ Len(final_result') = Len(final_result)
            /\ \A i \in 1..Len(final_result) :
                  IF Has(final_result[i], "table")
                  THEN /\ final_result'[i] = final_result[i]
                       /\ final_result[i].table # target =>
                            Emitted(final_result'[i], table_data')
                                = Emitted(final_result[i], table_data)
                  ELSE final_result'[i] = final_result[i]]_vars

\* an operation changed r.t while s.t, registered too, has an empty ledger
C3_Witness ==
    /\ Len(parser_output) = 3
    /\ Len(table_data) = 2
    /\ DOMAIN tables_dict = {<<"t", "s">>, <<"t", "r">>}
    /\ Target(LastStatement) = tables_dict[<<"t", "r">>]
    /\ status = "running"
    /\ table_data[tables_dict[<<"t", "r">>]].alter # EmptyDict
    /\ table_data[tables_dict[<<"t", "s">>]].alter = EmptyDict

\* the objects built from CREATE TABLE records with the table id
BuiltFor(id) == {k \in 1..Len(table_data) : TableId(parser_output[CreatedAt(k)]) = id}

\* C4: the registry maps every created table id to exactly the object built
\* from the latest CREATE TABLE record with that id, and an object that a
\* later CREATE TABLE record replaced in the registry is changed by nothing
\* after that: the later ALTER/INDEX records of the id reach the new object.
C4_LastWriterWins ==
    /\ DOMAIN tables_dict = {TableId(parser_output[p]) : p \in TablePositions}
    /\ \A id \in DOMAIN tables_dict :
          LET built == BuiltFor(id)
          IN  /\ tables_dict[id] \in built
              /\ \A k \in built : k <= tables_dict[id]
              /\ Cardinality(built) > 1 =>
                    \A k \in built : table_data[k] = Reconciled(k)

\* s.t was created twice and then altered: the second object carries the
\* operation, the first is as built
C4_Witness ==
    /\ Len(parser_output) = 3
    /\ BuiltFor(<<"t", "s">>) = {1, 2}
    /\ Target(LastStatement) = 2
    /\ status = "running"
    /\ table_data[2].alter # EmptyDict
    /\ table_data[1].alter = EmptyDict

\* the branch of add_alter_to_table an ALTER record that reaches it takes
Operation(statement) ==
    IF ~(Get(statement, "index_name", "") = "" /\ Get(statement, "alter_table_name", "") # "")
    THEN "none"
    ELSE IF Has(statement, "columns") THEN "columns"
    ELSE IF Has(statement, "columns_to_rename") THEN "columns_to_rename"
    ELSE IF Has(statement, "columns_to_drop") THEN "columns_to_drop"
    ELSE IF Has(statement, "columns_to_modify") THEN "columns_to_modify"
    ELSE IF Has(statement, "check") THEN "check"
    ELSE IF Has(statement, "unique") THEN "unique"
    ELSE IF Has(statement, "default") THEN "default"
    ELSE IF Has(statement, "primary_key") THEN "primary_key"
    ELSE "none"

\* the step consumes one record
Consumes == Len(parser_output') = Len(parser_output) + 1

RECURSIVE IsSubSeq(_, _)
\* list s is list t with some elements removed
IsSubSeq(s, t) ==
    IF s = <<>> THEN TRUE
    ELSE IF t = <<>> THEN FALSE
    ELSE IF Head(s) = Head(t) THEN IsSubSeq(Tail(s), Tail(t))
    ELSE IsSubSeq(s, Tail(t))

\* C5 as stated: in every step, a live column with unique = true still has
\* unique = true afterwards if a column of its name is still live.
C5_UniqueNeverUnmarked ==
    [][\A k \in 1..Len(table_data) :
        \A i \in 1..Len(table_data[k].columns) :
            LET name == table_data[k].columns[i].name
                after == {j \in 1..Len(table_data'[k].columns) :
                            table_data'[k].columns[j].name = name}
            IN  (table_data[k].columns[i].unique /\ after # {})
                => \E j \in after : table_data'[k].columns[j].unique]_vars

\* C5, amended: every step that consumes a record other than an ALTER MODIFY
\* COLUMNS record keeps unique = true on every column that stays live,
\* whatever the column is renamed to: DROP COLUMNS removes columns and
\* leaves the others as they are, every other record keeps each column at
\* its position with unique still true if it was.
C5_UniqueKeptUnlessModified ==
    [][(Consumes /\ Operation(parser_output'[Len(parser_output')]) # "columns_to_modify")
        => \A k \in 1..Len(table_data) :
              IF Operation(parser_output'[Len(parser_output')]) = "columns_to_drop"
              THEN IsSubSeq(table_data'[k].columns, table_data[k].columns)
              ELSE /\ Len(table_data'[k].columns) >= Len(table_data[k].columns)
                   /\ \A i \in 1..Len(table_data[k].columns) :
                         table_data[k].columns[i].unique
                            => table_data'[k].columns[i].unique]_vars

\* a unique column was renamed, then another column was marked by ADD
\* UNIQUE: the renamed column is still unique
C5_Witness ==
    /\ Len(parser_output) = 3
    /\ Len(table_data) = 1
    /\ status = "running"
    /\ Operation(parser_output[2]) = "columns_to_rename"
    /\ Operation(parser_output[3]) = "unique"
    /\ \E i \in 1..Len(table_data[1].columns) :
          /\ table_data[1].columns[i].name = "c"
          /\ table_data[1].columns[i].unique
          /\ ~InList("c", parser_output[3].unique.columns)

\* the column names the sources of unique give for the k-th table, whose
\* ALTER/INDEX records are at the positions operations: the inline flag of
\* its column records, the three lists of the CREATE TABLE record, and the
\* later ALTER ADD UNIQUE records on the table
UniqueSources(k, operations) ==
    LET record == parser_output[CreatedAt(k)]
        constraints_unique == Get(Get(record, "constraints", EmptyDict), "unique", EmptyDict)
    IN  {record.columns[i].name :
            i \in {j \in 1..Len(record.columns) : record.columns[j].unique}}
        \cup Range(Get(record, "unique_statement", <<>>))
        \cup Range(Get(constraints_unique, "columns", <<>>))
        \cup Range(Get(record, "unique", <<>>))
        \cup UNION {Range(parser_output[p].unique.columns) :
                        p \in {q \in operations : Operation(parser_output[q]) = "unique"}}

----
\* The build's sources of the primary key, read from the CREATE TABLE record.

\* the declared list; <<>> when none is declared
DeclaredKey(record) == Get(record, "primary_key", <<>>)

RECURSIVE NamesOfFlagged(_)
\* the names of the columns whose primary_key flag is set, in column order
NamesOfFlagged(columns) ==
    IF columns = <<>> THEN <<>>
    ELSE (IF Head(columns).primary_key THEN <<Head(columns).name>> ELSE <<>>)
         \o NamesOfFlagged(Tail(columns))

RECURSIVE Flatten(_)
Flatten(lists) ==
    IF lists = <<>> THEN <<>> ELSE Head(lists).columns \o Flatten(Tail(lists))

\* the column names of the table-level primary-key constraints, in order
ConstraintKeys(record) ==
    Flatten(Get(Get(record, "constraints", EmptyDict), "primary_keys", <<>>))

\* C7: with no (or an empty) declared list, primary_key is the names of the
\* flagged columns in column order followed by the column names of the
\* primary-key constraints in declaration order; a declared non-empty list
\* is primary_key as it stands.
C7_PrimaryKeyResolution ==
    \A k \in 1..Len(table_data) :
        LET record == parser_output[CreatedAt(k)]
        IN  table_data[k].primary_key =
                Some(IF DeclaredKey(record) = <<>>
                     THEN NamesOfFlagged(record.columns) \o ConstraintKeys(record)
                     ELSE DeclaredKey(record))

\* a table built from a record with no declared list, column a flagged and
\* the constraints (b), (a)
C7_Witness ==
    /\ Len(table_data) = 1
    /\ ~Has(parser_output[1], "primary_key")
    /\ NamesOfFlagged(parser_output[1].columns) = <<"a">>
    /\ ConstraintKeys(parser_output[1]) = <<"b", "a">>
    /\ table_data[1].primary_key = Some(<<"a", "b", "a">>)

\* C8: after the build primary_key is a list, never None, and every column
\* it names is not nullable.
C8_KeyColumnsNotNullable ==
    \A k \in 1..Len(table_data) :
        /\ table_data[k].primary_key # None
        /\ \A i \in 1..Len(table_data[k].columns) :
              InList(table_data[k].columns[i].name, table_data[k].primary_key[1])
                  => table_data[k].columns[i].nullable = FALSE

\* a table built from a record that declares (b, a), flags nothing and
\* carries both columns nullable
C8_Witness ==
    /\ Len(table_data) = 1
    /\ DeclaredKey(parser_output[1]) = <<"b", "a">>
    /\ Len(parser_output[1].columns) = 2
    /\ \A i \in 1..2 : /\ parser_output[1].columns[i].nullable
                       /\ ~parser_output[1].columns[i].primary_key
    /\ \A i \in 1..2 : table_data[1].columns[i].nullable = FALSE

\* C9 as stated: no live column carries the primary_key flag, after the
\* build and after any later ALTER.
C9_NoTransientFlag ==
    \A k \in 1..Len(table_data) :
        \A i \in 1..Len(table_data[k].columns) :
            ~Has(table_data[k].columns[i], "primary_key")

\* what the code that built the k-th table makes of another record
BuiltLike(k, record) ==
    IF Has(table_data[k], "init_data")
    THEN TableData_init(SetKey(record, "output_mode", output_mode))
    ELSE process_is_it_table_item(process_entities_table_data(record))

ColumnNamesOf(record) == {record.columns[i].name : i \in 1..Len(record.columns)}

\* the record's columns, flagged exactly where the list names them
FlaggedBy(record, key) ==
    SetKey(DelKey(record, "primary_key"), "columns",
        [i \in 1..Len(record.columns) |->
            SetKey(record.columns[i], "primary_key", InList(record.columns[i].name, key))])

\* the record's columns, unflagged, with the list declared
DeclaredBy(record, key) ==
    SetKey(SetKey(record, "columns",
                [i \in 1..Len(record.columns) |->
                    SetKey(record.columns[i], "primary_key", FALSE)]),
           "primary_key", key)

NotNullable(table) ==
    {table.columns[i].name : i \in {j \in 1..Len(table.columns) : ~table.columns[j].nullable}}

SameKey(x, y) ==
    /\ Range(x.primary_key[1]) = Range(y.primary_key[1])
    /\ NotNullable(x) = NotNullable(y)
    /\ \A i \in 1..Len(x.columns) : ~Has(x.columns[i], "primary_key")
    /\ \A i \in 1..Len(y.columns) : ~Has(y.columns[i], "primary_key")

\* C10: a table built from a declared list of its column names, and the
\* table built from the same columns flagged at those names, have the same
\* set of primary_key names and of not nullable columns, and no column of
\* either keeps the flag; likewise from the flags to the declared list.
C10_DeclaredAndFlaggedAgree ==
    \A k \in 1..Len(table_data) :
        LET record == parser_output[CreatedAt(k)]
            key == DeclaredKey(record)
            flagged == NamesOfFlagged(record.columns)
        IN  ConstraintKeys(record) = <<>> =>
                /\ (key # <<>> /\ Range(key) \subseteq ColumnNamesOf(record))
                      => SameKey(table_data[k], BuiltLike(k, FlaggedBy(record, key)))
                /\ (key = <<>> /\ flagged # <<>>)
                      => SameKey(table_data[k], BuiltLike(k, DeclaredBy(record, flagged)))

\* a table built from the declared list (b, a) over columns a, b
C10_Witness ==
    /\ Len(table_data) = 1
    /\ DeclaredKey(parser_output[1]) = <<"b", "a">>
    /\ ColumnNamesOf(parser_output[1]) = {"a", "b"}
    /\ ConstraintKeys(parser_output[1]) = <<>>
    /\ table_data[1].primary_key = Some(<<"b", "a">>)
    /\ BuiltLike(1, FlaggedBy(parser_output[1], <<"b", "a">>)).primary_key = Some(<<"a", "b">>)

RawRecord(i) == parser_output[CreatedAt(final_result[i].table)]

\* the decision of the field filter, as the first match of the fixed order
FirstMatchDecision(self, raw, mode, field) ==
    CASE field \in exclude_always_keys -> FALSE
      [] field \in exclude_if_not_provided \cup dialect_exclude_if_not_provided
            /\ field \notin DOMAIN raw -> FALSE
      [] field \in exclude_if_empty /\ self[field] = EmptyDict -> FALSE
      [] field \in DOMAIN output_modes /\ mode \notin output_modes[field] -> FALSE
      [] OTHER -> TRUE

\* C12: a field of a table entity is in the emitted map exactly when the
\* first match of always-excluded, not-provided, empty, dialect-restricted
\* says present; an always-excluded field is never in the emitted map.
C12_FilterPrecedence ==
    \A i \in 1..Len(final_result) :
        Has(final_result[i], "table") =>
            LET self == table_data[final_result[i].table]
            IN  /\ \A field \in DOMAIN self :
                     field \in final_result[i].keys
                        <=> FirstMatchDecision(self, RawRecord(i), output_mode, field)
                /\ final_result[i].keys \cap
                     {"init_data", "output_mode", "unique", "unique_statement",
                      "ref_columns", "references"} = {}

\* a record providing unique, temp, tblproperties and constraints is emitted
\* in a dialect temp is not allowed in
C12_Witness ==
    /\ Len(final_result) = 1
    /\ output_mode = "mssql"
    /\ {"unique", "temp", "tblproperties", "constraints"} \subseteq DOMAIN parser_output[1]
    /\ table_data[1].unique = <<"a">>
    /\ table_data[1].temp = TRUE
    /\ final_result[1].keys \cap {"unique", "temp", "tblproperties"} = {}
    /\ "constraints" \in final_result[1].keys

\* C13: an exclude-if-not-provided field is absent from the emitted entity
\* when the raw record has no such key, whatever its default, and present,
\* falsy or empty as it may be, when the raw record has the key, unless the
\* dialect restricts it; the provided keys are all keys of the record, those
\* folded into table_properties included.
C13_PresenceContract ==
    \A i \in 1..Len(final_result) :
        Has(final_result[i], "table") =>
            LET self == table_data[final_result[i].table]
                raw == RawRecord(i)
            IN  /\ \A field \in {"constraints", "if_not_exists", "partition_by",
                                 "replace", "comment", "like"} :
                     field \in final_result[i].keys <=> field \in DOMAIN raw
                /\ "tblproperties" \in DOMAIN self =>
                     ("tblproperties" \in final_result[i].keys
                        <=> /\ "tblproperties" \in DOMAIN raw
                            /\ output_mode \in output_modes.tblproperties)
                /\ self.init_data = DOMAIN raw \cup {"output_mode"}
                /\ DOMAIN self.table_properties \subseteq self.init_data
                /\ DOMAIN self.table_properties = DOMAIN raw \ DOMAIN self

\* if_not_exists FALSE and empty constraints were provided, replace was not,
\* and engine was folded into table_properties
C13_Witness ==
    /\ Len(final_result) = 1
    /\ output_mode = "sql"
    /\ DOMAIN parser_output[1] \cap DOMAIN FieldValues = {"constraints", "if_not_exists", "engine"}
    /\ table_data[1].if_not_exists = FALSE
    /\ table_data[1].constraints = EmptyDict
    /\ {"constraints", "if_not_exists", "table_properties"} \subseteq final_result[1].keys
    /\ final_result[1].keys \cap {"replace", "comment", "like", "partition_by"} = {}
    /\ table_data[1].table_properties = [engine |-> "e"]
    /\ "engine" \in table_data[1].init_data

\* an ALTER record of none of the recognized operation shapes
Unrecognized(statement) ==
    /\ Get(statement, "index_name", "") = ""
    /\ Get(statement, "alter_table_name", "") # ""
    /\ Operation(statement) = "none"

\* C14: an ALTER record that targets a registered table and has none of the
\* recognized operation shapes is a hard error: the run stops at it, raised.
C14_UnrecognizedShapeIsError ==
    \A p \in 1..Len(parser_output) :
        (Unrecognized(parser_output[p]) /\ LookedUp(parser_output[p]) \in CreatedBefore(p))
        => /\ p = Len(parser_output)
           /\ status = "raised"

\* C15: a run raises only for an ALTER or CREATE INDEX record that names a
\* table not registered before it; every record of a recognized shape on a
\* registered table is processed without raising.
C15_OnlyUnknownTableRaises ==
    status = "raised"
        => /\ error # None
           /\ error[1].type = "ValueError"
           /\ LooksUp(LastStatement)
           /\ LookedUp(LastStatement) \notin CreatedBefore(Len(parser_output))

\* the record is neither ALTER nor INDEX and has no table_name, or an empty one
NotATable(statement) ==
    /\ ~Has(statement, "index_name")
    /\ ~Has(statement, "alter_table_name")
    /\ Get(statement, "table_name", "") = ""

\* the position in final_result of what the record at stream position p emits
EmittedAt(p) ==
    Cardinality({q \in 1..p : /\ ~Has(parser_output[q], "index_name")
                              /\ ~Has(parser_output[q], "alter_table_name")})

\* C16: a record that is neither ALTER nor INDEX and has no table_name is
\* not a table: it is emitted at its stream position as it came, with no
\* constraint or reference resolution run on it, and the registry holds
\* nothing but the tables built from CREATE TABLE records.
C16_NotATablePassesThrough ==
    \A p \in 1..Len(parser_output) :
        NotATable(parser_output[p])
        => /\ EmittedAt(p) <= Len(final_result)
           /\ final_result[EmittedAt(p)] = [statement |-> parser_output[p]]
           /\ Len(table_data) = Cardinality(TablePositions)
           /\ DOMAIN tables_dict = {TableId(parser_output[q]) : q \in TablePositions}

\* the declared buckets other than comments
DeclaredBuckets == {"tables", "types", "sequences", "domains", "schemas", "ddl_properties"}

\* the buckets the records emitted so far are routed to
RoutedBuckets ==
    {keys_map[FirstKey([statement |-> parser_output[p]])][2] :
        p \in {q \in 1..Len(parser_output) :
                  FirstKey([statement |-> parser_output[q]]) # 0}}

\* at least one comment was collected
CommentCollected ==
    \E p \in 1..Len(parser_output) :
        /\ FirstKey([statement |-> parser_output[p]]) = Len(keys_map)
        /\ parser_output[p].comments # <<>>

\* C17 as stated: the grouped result has the keys tables, types, sequences,
\* domains, schemas, ddl_properties, and comments exactly when a comment was
\* collected; no other key appears.
C17_WrapperKeySet ==
    (status = "returned" /\ group_by_type)
        => DOMAIN final_result =
             DeclaredBuckets \cup (IF CommentCollected THEN {"comments"} ELSE {})

\* C17, amended: the grouped result has the six declared buckets, comments
\* exactly when a comment was collected, and tablespaces or databases
\* exactly when a record was routed there by tablespace_name or database_name.
C17_WrapperKeySetWithLazyBuckets ==
    (status = "returned" /\ group_by_type)
        => DOMAIN final_result =
             DeclaredBuckets
                \cup (IF CommentCollected THEN {"comments"} ELSE {})
                \cup (RoutedBuckets \cap {"tablespaces", "databases"})

\* a grouped result of a stream with a tablespace record and an empty
\* comments record: tablespaces is a key, comments is not
C17_Witness ==
    /\ status = "returned"
    /\ group_by_type
    /\ \E p \in 1..Len(parser_output) : parser_output[p] = [tablespace_name |-> "ts"]
    /\ \E p \in 1..Len(parser_output) : parser_output[p] = [comments |-> <<>>]
    /\ DOMAIN final_result = DeclaredBuckets \cup {"tablespaces"}
    /\ final_result.tablespaces = <<[statement |-> [tablespace_name |-> "ts"]]>>
    /\ final_result.tables = <<>>

\* the name is the column's, up to normalization
Matches(name, column) == normalize_name(name) = normalize_name(column.name)

\* the largest position of a non-empty set of positions
Latest(positions) == CHOOSE i \in positions : \A j \in positions : j <= i

\* the ledger slot as a record without a match leaves it: the column it
\* held, else the empty list
SlotKept(alter, slot) ==
    IF Falsy(Get(alter, slot, <<>>)) THEN <<>> ELSE alter[slot]

\* the other buckets of the ledger are as they were
OtherBucketsKept(old, new, slot) ==
    /\ DOMAIN new = DOMAIN old \cup {slot}
    /\ \A bucket \in DOMAIN old \ {slot} : new[bucket] = old[bucket]

\* the i-th smallest of a set of positions
Nth(positions, i) ==
    CHOOSE p \in positions : Cardinality({q \in positions : q <= p}) = i

\* C18: a DROP COLUMNS record removes, name by name, the first live column
\* the name matches up to normalization and leaves the others in order;
\* dropped_columns then holds the column object removed last, whatever it
\* held before; a name matching no live column removes nothing, and when no
\* name matches the column held by the slot is unchanged too.
C18_DropColumns ==
    [][(Consumes /\ Operation(parser_output'[Len(parser_output')]) = "columns_to_drop"
            /\ Target(parser_output'[Len(parser_output')]) # 0)
        => LET statement == parser_output'[Len(parser_output')]
               names == statement.columns_to_drop
               old == table_data[Target(statement)]
               new == table_data'[Target(statement)]
               \* the live columns the name matches, and which of the names
               \* matching the same columns the i-th name is
               Live(name) == {j \in 1..Len(old.columns) : Matches(name, old.columns[j])}
               Turn(i) == Cardinality({h \in 1..i :
                              normalize_name(names[h]) = normalize_name(names[i])})
               removing == {i \in 1..Len(names) : Turn(i) <= Cardinality(Live(names[i]))}
               Removed(i) == Nth(Live(names[i]), Turn(i))
               kept == (1..Len(old.columns)) \ {Removed(i) : i \in removing}
           IN  /\ status' = "running"
               /\ new.columns = [i \in 1..Cardinality(kept) |-> old.columns[Nth(kept, i)]]
               /\ OtherBucketsKept(old.alter, new.alter, "dropped_columns")
               /\ IF removing = {}
                  THEN /\ new.columns = old.columns
                       /\ new.alter.dropped_columns = SlotKept(old.alter, "dropped_columns")
                  ELSE new.alter.dropped_columns =
                         old.columns[Removed(Latest(removing))]]_vars

\* a and b were dropped by one record, then a record named a column the
\* table does not have: no live column is left and the slot holds b alone
C18_Witness ==
    /\ Len(parser_output) = 3
    /\ status = "running"
    /\ Get(parser_output[2], "columns_to_drop", <<>>) = <<"A", "b">>
    /\ Get(parser_output[3], "columns_to_drop", <<>>) = <<"z">>
    /\ table_data[1].columns = <<>>
    /\ table_data[1].alter.dropped_columns =
          [name |-> "b", unique |-> FALSE, nullable |-> TRUE, default |-> "None"]

\* C19: an ADD COLUMNS record appends every column it adds to the ledger
\* bucket columns and appends to the live columns those whose normalized
\* name is not live yet, once.
C19_AddColumns ==
    [][(Consumes /\ Operation(parser_output'[Len(parser_output')]) = "columns"
            /\ Target(parser_output'[Len(parser_output')]) # 0)
        => LET statement == parser_output'[Len(parser_output')]
               old == table_data[Target(statement)]
               new == table_data'[Target(statement)]
           IN  /\ status' = "running"
               /\ Get(new.alter, "columns", <<>>)
                    = Get(old.alter, "columns", <<>>) \o statement.columns
               /\ \A i \in 1..Len(statement.columns) :
                     Cardinality({j \in 1..Len(new.columns) :
                                    Matches(statement.columns[i].name, new.columns[j])}) = 1
               /\ IsSubSeq(old.columns, new.columns)]_vars

\* C20: a MODIFY COLUMNS record puts each replacement in the place of the
\* first live column its name matches up to normalization, the other columns
\* staying where they are; modified_columns then holds the old column of the
\* last replacement made, whatever it held before; when no replacement
\* matches, the live columns and the column held by the slot are unchanged.
C20_ModifyColumns ==
    [][(Consumes /\ Operation(parser_output'[Len(parser_output')]) = "columns_to_modify"
            /\ Target(parser_output'[Len(parser_output')]) # 0)
        => LET statement == parser_output'[Len(parser_output')]
               replacements == statement.columns_to_modify
               old == table_data[Target(statement)]
               new == table_data'[Target(statement)]
               Hits(column) == {i \in 1..Len(replacements) :
                                   Matches(replacements[i].name, column)}
               matched == {i \in 1..Len(replacements) :
                              \E j \in 1..Len(old.columns) :
                                  Matches(replacements[i].name, old.columns[j])}
           IN  /\ status' = "running"
               /\ Len(new.columns) = Len(old.columns)
               /\ \A j \in 1..Len(old.columns) :
                     new.columns[j] =
                        IF Hits(old.columns[j]) # {}
                            /\ j = FirstMatch(old.columns, old.columns[j].name)
                        THEN replacements[Latest(Hits(old.columns[j]))]
                        ELSE old.columns[j]
               /\ OtherBucketsKept(old.alter, new.alter, "modified_columns")
               /\ IF matched = {}
                  THEN /\ new.columns = old.columns
                       /\ new.alter.modified_columns = SlotKept(old.alter, "modified_columns")
                  ELSE LET last == Latest(matched)
                           place == FirstMatch(old.columns, replacements[last].name)
                           earlier == {i \in Hits(old.columns[place]) : i < last}
                       IN  new.alter.modified_columns =
                             IF earlier = {} THEN old.columns[place]
                             ELSE replacements[Latest(earlier)]]_vars

\* a and b were replaced by one record, then a record carried a replacement
\* for a column the table does not have: both replacements are in place and
\* the slot holds the old b alone
C20_Witness ==
    /\ Len(parser_output) = 3
    /\ status = "running"
    /\ Get(parser_output[2], "columns_to_modify", <<>>) =
          <<Column("A", TRUE, TRUE, FALSE), Column("b", FALSE, FALSE, FALSE)>>
    /\ Get(parser_output[3], "columns_to_modify", <<>>) = <<Column("z", FALSE, TRUE, FALSE)>>
    /\ table_data[1].columns = parser_output[2].columns_to_modify
    /\ table_data[1].alter.modified_columns =
          [name |-> "b", unique |-> FALSE, nullable |-> TRUE, default |-> "None"]

\* the columns after one pair: the first column whose normalized name is
\* that of from has the name to, every other column and attribute as before
PairRenamed(columns, pair) ==
    LET matching == {j \in 1..Len(columns) : Matches(pair.from, columns[j])}
    IN  [j \in 1..Len(columns) |->
            IF matching # {} /\ j = Nth(matching, 1)
            THEN [key \in DOMAIN columns[j] |->
                    IF key = "name" THEN pair.to ELSE columns[j][key]]
            ELSE columns[j]]

RECURSIVE PairsRenamed(_, _, _)
\* the columns after the pairs from the i-th on, in order
PairsRenamed(columns, pairs, i) ==
    IF i > Len(pairs) THEN columns
    ELSE PairsRenamed(PairRenamed(columns, pairs[i]), pairs, i + 1)

\* C21: a RENAME COLUMNS record gives, pair by pair in order, the name to to
\* the first live column whose normalized name is that of from, changing no
\* position, no other attribute and no other column, and appends every pair
\* to renamed_columns, matched or not.
C21_RenameColumns ==
    [][(Consumes /\ Operation(parser_output'[Len(parser_output')]) = "columns_to_rename"
            /\ Target(parser_output'[Len(parser_output')]) # 0)
        => LET statement == parser_output'[Len(parser_output')]
               pairs == statement.columns_to_rename
               old == table_data[Target(statement)]
               new == table_data'[Target(statement)]
           IN  /\ status' = "running"
               /\ new.columns = PairsRenamed(old.columns, pairs, 1)
               /\ Len(new.columns) = Len(old.columns)
               /\ \A j \in 1..Len(old.columns) :
                     /\ DOMAIN new.columns[j] = DOMAIN old.columns[j]
                     /\ \A key \in DOMAIN old.columns[j] \ {"name"} :
                           new.columns[j][key] = old.columns[j][key]
               /\ OtherBucketsKept(old.alter, new.alter, "renamed_columns")
               /\ new.alter.renamed_columns =
                     Get(old.alter, "renamed_columns", <<>>) \o pairs
               /\ \A field \in DOMAIN old \ {"columns", "alter"} : new[field] = old[field]]_vars

\* a was renamed to c and then to d by one record, then a record renamed a
\* column the table does not have: a is d, in the first place, and the ledger
\* has the three pairs
C21_Witness ==
    /\ Len(parser_output) = 3
    /\ status = "running"
    /\ Get(parser_output[2], "columns_to_rename", <<>>) =
          <<[from |-> "A", to |-> "c"], [from |-> "c", to |-> "d"]>>
    /\ Get(parser_output[3], "columns_to_rename", <<>>) = <<[from |-> "z", to |-> "y"]>>
    /\ table_data[1].columns[1] =
          [name |-> "d", unique |-> FALSE, nullable |-> FALSE, default |-> "None"]
    /\ table_data[1].columns[2].name = "b"
    /\ table_data[1].alter.renamed_columns =
          parser_output[2].columns_to_rename \o parser_output[3].columns_to_rename

\* C22: an ADD UNIQUE or ADD DEFAULT record sets unique, respectively the
\* default, on the live column each of its names addresses up to
\* normalization, the column DROP, RENAME or MODIFY would address by that
\* name, and appends its payload to the ledger bucket uniques / defaults.
C22_PropagationNormalized ==
    [][(Consumes /\ Operation(parser_output'[Len(parser_output')]) \in {"unique", "default"}
            /\ Target(parser_output'[Len(parser_output')]) # 0)
        => LET statement == parser_output'[Len(parser_output')]
               key == Operation(statement)
               names == statement[key].columns
               old == table_data[Target(statement)]
               new == table_data'[Target(statement)]
           IN  /\ status' = "running"
               /\ \A i \in 1..Len(names) :
                     LET place == FirstMatch(old.columns, names[i])
                     IN  place # 0 =>
                            IF key = "unique" THEN new.columns[place].unique = TRUE
                            ELSE new.columns[place].default = statement.default.value
               /\ new.alter[key \o "s"] =
                     Append(Get(old.alter, key \o "s", <<>>), statement[key])]_vars

Naming(raw, column) ==
    {h \in 1..Len(Get(raw, "ref_columns", <<>>)) : raw.ref_columns[h].name = column.name}

\* the descriptor without its name key
Unnamed(descriptor) == [key \in DOMAIN descriptor \ {"name"} |-> descriptor[key]]

\* C24 as stated: each descriptor of the working list is the references of
\* the column of its name, less its name key; a column no descriptor names
\* gains no references; the working list is not in the emitted entity.
C24_EachDescriptorAttached ==
    \A i \in 1..Len(final_result) :
        Has(final_result[i], "table") =>
            LET raw == RawRecord(i)
                emitted == Emitted(final_result[i], table_data)
            IN  /\ \A j \in 1..Len(raw.columns) :
                     /\ \A h \in Naming(raw, raw.columns[j]) :
                           emitted.columns[j].references = Unnamed(raw.ref_columns[h])
                     /\ Naming(raw, raw.columns[j]) = {}
                           => emitted.columns[j].references = None
                /\ DOMAIN emitted \cap {"ref_columns", "references"} = {}

\* C24, amended: a column named by descriptors of the working list has the
\* last of them as its references, less its name key; a column no descriptor
\* names gains no references, so a descriptor naming no column is attached
\* nowhere; the working list is not in the emitted entity.
C24_LastDescriptorAttached ==
    \A i \in 1..Len(final_result) :
        Has(final_result[i], "table") =>
            LET raw == RawRecord(i)
                emitted == Emitted(final_result[i], table_data)
            IN  /\ Len(emitted.columns) = Len(raw.columns)
                /\ \A j \in 1..Len(raw.columns) :
                     /\ emitted.columns[j].name = raw.columns[j].name
                     /\ Naming(raw, raw.columns[j]) # {}
                           => emitted.columns[j].references =
                                Unnamed(raw.ref_columns[Latest(Naming(raw, raw.columns[j]))])
                     /\ Naming(raw, raw.columns[j]) = {}
                           => emitted.columns[j].references = None
                /\ DOMAIN emitted \cap {"ref_columns", "references"} = {}

\* the working list names b and a column the table does not have: b has
\* the descriptor, without name, a has none, and the list is not emitted
C24_Witness ==
    /\ Len(final_result) = 1
    /\ Get(parser_output[1], "ref_columns", <<>>) =
          <<[name |-> "b", table |-> "x"], [name |-> "z", table |-> "x"]>>
    /\ Emitted(final_result[1], table_data).columns[2].references = [table |-> "x"]
    /\ Emitted(final_result[1], table_data).columns[1].references = None
    /\ "ref_columns" \notin final_result[1].keys

\* what format put in the flat final_result for the record at position p of
\* a stream without ALTER and INDEX records
FlatItem(p) ==
    IF IsTable(parser_output[p])
    THEN to_dict(table_data, Cardinality({q \in TablePositions : q <= p}))
    ELSE [statement |-> dialects_clean_up(output_mode, parser_output[p])]

\* the positions of the records routed to the bucket, in stream order
RoutedTo(bucket) ==
    {p \in 1..Len(parser_output) :
        /\ FirstKey(FlatItem(p)) # 0
        /\ keys_map[FirstKey(FlatItem(p))][2] = bucket}

RECURSIVE Flattened(_, _)
\* the inner lists of the comments records from position p on, concatenated
Flattened(positions, p) ==
    IF p > Len(parser_output) THEN <<>>
    ELSE (IF p \in positions THEN parser_output[p].comments ELSE <<>>)
            \o Flattened(positions, p + 1)

\* C25: in the grouped result every entity that is not a comments entity is
\* in exactly one bucket, that of the first discriminator key it carries;
\* each bucket holds its entities in first-seen order; the comments bucket
\* holds the elements of the inner lists of the comments entities.
C25_EachEntityInOneBucket ==
    (status = "returned" /\ group_by_type)
        => /\ \A p \in 1..Len(parser_output) :
                 FirstKey(FlatItem(p)) # Len(keys_map)
                    => /\ Cardinality({bucket \in DOMAIN final_result \ {"comments"} :
                                          InList(FlatItem(p), final_result[bucket])}) = 1
                       /\ FirstKey(FlatItem(p)) # 0
                       /\ InList(FlatItem(p), final_result[keys_map[FirstKey(FlatItem(p))][2]])
           /\ \A bucket \in DOMAIN final_result \ {"comments"} :
                 final_result[bucket] =
                    [i \in 1..Cardinality(RoutedTo(bucket)) |->
                        FlatItem(Nth(RoutedTo(bucket), i))]
           /\ Get(final_result, "comments", <<>>) = Flattened(RoutedTo("comments"), 1)

\* C26: the primary_key list of an entity never holds the same column name
\* twice, whatever the CREATE TABLE record: not when a column is flagged
\* inline and also named by a table-level primary-key constraint.
C26_PrimaryKeyUnique ==
    \A k \in 1..Len(table_data) :
        table_data[k].primary_key # None
            => \A i, j \in 1..Len(table_data[k].primary_key[1]) :
                  table_data[k].primary_key[1][i] = table_data[k].primary_key[1][j]
                      => i = j

\* the ALTER record adds a column of the (canonical) name
AddsColumn(statement, name) ==
    /\ Has(statement, "columns")
    /\ \E i \in 1..Len(statement.columns) : normalize_name(statement.columns[i].name) = name

\* C27: a column removed by ALTER DROP COLUMNS stays absent from the live
\* column list of its table after any later ALTER records that do not add a
\* column of that name: a later ADD COLUMNS naming only other columns does
\* not bring back a column that was added and has since been dropped.
C27_DroppedStaysAbsent ==
    status # "raised"
        => \A p \in 1..Len(parser_output) :
              Has(parser_output[p], "columns_to_drop")
                 => \A i \in 1..Len(parser_output[p].columns_to_drop) :
                       (\A q \in (p + 1)..Len(parser_output) :
                            ~AddsColumn(parser_output[q],
                                        normalize_name(parser_output[p].columns_to_drop[i])))
                          => ~InList(normalize_name(parser_output[p].columns_to_drop[i]),
                                     get_normalized_table_columns_names(
                                        table_data[tables_dict[get_table_id(
                                            parser_output[p].schema,
                                            parser_output[p].alter_table_name)]]))

\* C28: every record format consumes is accounted for: the step appends one
\* entry to the flat final result, or applies the record as an ALTER/INDEX
\* operation to the registered table it names, or aborts the run; this
\* includes a record whose index_name or alter_table_name is empty.
C28_EveryRecordAccounted ==
    [][Consumes
        => \/ status' = "raised"
           \/ /\ Len(final_result') = Len(final_result) + 1
              /\ SubSeq(final_result', 1, Len(final_result)) = final_result
           \/ /\ Target(LastStatement') # 0
              /\ table_data'[Target(LastStatement')]
                    = Applied(table_data[Target(LastStatement')], LastStatement')]_vars

====
